---------------------------- MODULE Spec2Model ----------------------------
(***************************************************************************)
(* Verification model of the PFR scraper: the polite fetch layer           *)
(* (src/src/fetch.py), the batch drivers (src/src/boxtotals.py,            *)
(* src/src/linescore.py) and the positional line-score row parser.         *)
(*                                                                         *)
(* Time is counted in ticks of 0.05 s, the largest unit in which every     *)
(* float literal of fetch.py is a whole number (2.0 s = 40 ticks,          *)
(* 0.05 s = 1 tick).  random.uniform(a, b) is a nondeterministic choice    *)
(* among sampled points of [a, b] that include both ends.                  *)
(*                                                                         *)
(* The wall clock is kept as ages rather than as absolute readings:        *)
(* elapsed is time.time() - _last_request_ts, the quantity line 34 of      *)
(* fetch.py computes, and every age stops growing at MaxElapsed, which is  *)
(* above PFR_MIN_INTERVAL, the only value an age is compared with.         *)
(***************************************************************************)
EXTENDS Integers, Sequences, FiniteSets, TLC

VARIABLES
    \* ---- fetch.py: process state and the environment of get ----
    elapsed,            \* time.time() - _last_request_ts (fetch.py:25, :34)
    cache,              \* the requests_cache store: url -> <<>> or <<body>>
    policy,             \* os.environ["PFR_POLICY"] (run_linescore.py:10)
    \* ---- fetch.py: one call of get ----
    pc,                 \* position of the calling thread
    url,                \* argument of get
    attempt,            \* loop variable of get
    resp,               \* local resp of get
    wait_s,             \* local wait_s of get (line 83)
    result,             \* what the call returned or raised
    \* ---- observation of the call (history, read by no action guard) ----
    calls,              \* calls of get made so far
    nreq,               \* network requests issued by the current call
    ngate,              \* Rate Gate invocations of the current call
    throttled,          \* the current call slept inside the Rate Gate
    lastSleep,          \* the retry sleep taken after the last failed attempt
    gateGap,            \* time between the last two exits of the Rate Gate
    sinceReturn,        \* time since the last network request came back, -1 if none
    startGap,           \* sinceReturn when the last network request started
    allRetryable,       \* every attempt of the current call hit a retryable class
    \* ---- batch drivers ----
    driver,             \* which driver runs: "totals" | "linescore"
    index,              \* the game_id column of the index CSV
    outdir,             \* the files in outdir when the batch starts
    existing,           \* local existing (boxtotals.py:97, linescore.py:191)
    limit,              \* the limit argument (0 stands for None)
    page,               \* what fetching and parsing the page of each id gives
    pos,                \* next row of the index
    bpc,                \* position of the driver
    processed,          \* local processed
    skipped,            \* local skipped
    failures,           \* local failures
    fetched,            \* ids handed to fetch_boxscore_totals / fetch_linescore
    saved,              \* files written by save_game_totals / save_linescore
    \* ---- line-score row parser ----
    cells,              \* the <td>/<th> children of one <tr>
    rowOut,             \* what _parse_row_no_datastat returned, or NotParsed
    \* ---- line-score rows with data-stat attributes ----
    tr,                 \* one <tr> of the linescore table: its cells
    domOut,             \* <<the out_rows entry built for tr>>
    \* ---- aggregate_totals.py ----
    text,               \* argument of the value parsers
    parsed,             \* what the three value parsers gave for text
    label,              \* argument of _normalize_stat_name
    stat_norm,          \* what _normalize_stat_name returned
    df,                 \* rows handed to tidy_totals
    df_tidy,            \* what tidy_totals returned
    wide,               \* what pivot_totals_wide returned
    \* ---- two threads at the Rate Gate ----
    now,                \* time.time()
    last_ts,            \* _last_request_ts (fetch.py:25)
    tpc,                \* position of each thread
    wake_at,            \* when the sleep of line 37 of each thread ends
    entries,            \* gate entries made so far
    lastStart,          \* when the last request started, -1 if none
    minGap,             \* least time between two request starts, -1 if none
    overlapped,         \* a thread entered the gate while another was in it
    starters            \* threads that have started a request

fetchVars == <<elapsed, cache, policy, pc, url, attempt, resp, wait_s, result,
               calls, nreq, ngate, throttled, lastSleep, gateGap, sinceReturn,
               startGap, allRetryable>>
batchVars == <<driver, index, outdir, existing, limit, page, pos, bpc,
               processed, skipped, failures, fetched, saved>>
rowVars   == <<cells, rowOut>>
domVars   == <<tr, domOut>>
aggVars   == <<text, parsed, label, stat_norm, df, df_tidy, wide>>
thrVars   == <<now, last_ts, tpc, wake_at, entries, lastStart, minGap, overlapped,
               starters>>
restVars  == <<domVars, aggVars, thrVars>>
vars      == <<fetchVars, batchVars, rowVars, restVars>>

-----------------------------------------------------------------------------
(* Optional values: None is the empty sequence, Some(v) a one-element one. *)
None    == <<>>
Some(v) == <<v>>

-----------------------------------------------------------------------------
(* fetch.py tunables, at their defaults, in ticks.                         *)
PFR_MIN_INTERVAL    == 40
PFR_MAX_ATTEMPTS    == 5
PFR_RETRY_AFTER_CAP == 900
RETRY_AFTER_DEFAULT == 200

(* Python floats as far as float(ra) can produce them. *)
Fin(v) == [kind |-> "fin", v |-> v]
PosInf == [kind |-> "inf", v |-> 0]
NegInf == [kind |-> "ninf", v |-> 0]
NaN    == [kind |-> "nan", v |-> 0]

(* a < b on Python floats: every comparison with nan is False. *)
PyLT(a, b) ==
    CASE a.kind = "nan" \/ b.kind = "nan" -> FALSE
      [] a.kind = "inf"                   -> FALSE
      [] a.kind = "ninf"                  -> b.kind # "ninf"
      [] b.kind = "inf"                   -> TRUE
      [] b.kind = "ninf"                  -> FALSE
      [] OTHER                            -> a.v < b.v

(* Python's two-argument min and max: the first argument unless the second
   is strictly smaller (greater). *)
PyMin(a, b) == IF PyLT(b, a) THEN b ELSE a
PyMax(a, b) == IF PyLT(a, b) THEN b ELSE a


-----------------------------------------------------------------------------
(* Inputs of the fetch layer.                                              *)
MaxCalls   == 2
MaxElapsed == 80
URLs       == {"u1", "u2"}
Bodies     == {"", "A", "B"}
Statuses   == {200, 404, 408, 429, 500}
Durations  == {0, 60}           \* how long SESSION.get takes on the network
IdleTimes  == {0, 60}           \* what the caller spends between two calls
GateJitter    == {1, 5}         \* random.uniform(0.05, 0.25), line 37
BackoffJitter == {2, 12}        \* random.uniform(0.1, 0.6), line 53
RetryJitter   == {4, 16}        \* random.uniform(0.2, 0.8), line 86

(* The Retry-After header: absent, text float() rejects, or text float()
   accepts, given by the float it yields. *)
RetryAfterHeaders ==
    {[kind |-> "absent", f |-> Fin(0)], [kind |-> "text", f |-> Fin(0)]}
    \cup {[kind |-> "float", f |-> x] :
            x \in {Fin(-100), Fin(0), Fin(60), Fin(20000), PosInf, NegInf, NaN}}

NoRetryAfter == [kind |-> "absent", f |-> Fin(0)]

(* Responses the server can give.  Only a 429 carries a Retry-After header
   here: get reads the header of no other response. *)
Responses ==
    {[status |-> s, text |-> t, retry_after |-> NoRetryAfter, from_cache |-> FALSE] :
        s \in Statuses \ {429}, t \in Bodies \ {"B"}}
    \cup {[status |-> 200, text |-> "B", retry_after |-> NoRetryAfter, from_cache |-> FALSE]}
    \cup {[status |-> 429, text |-> "", retry_after |-> h, from_cache |-> FALSE] :
        h \in RetryAfterHeaders}

(* No response object: SESSION.get raised, or get has not asked yet. *)
NoResponse == [status |-> 0, text |-> "", retry_after |-> NoRetryAfter, from_cache |-> FALSE]

NoSleep  == [kind |-> "none", secs |-> 0]
NoResult == [kind |-> "none", text |-> ""]
Raised(kind) == [kind |-> kind, text |-> ""]
Returned(t)  == [kind |-> "text", text |-> t]

(* An age d ticks later. *)
Sat(x)    == IF x > MaxElapsed THEN MaxElapsed ELSE x
Age(c, d) == IF c = -1 THEN -1 ELSE Sat(c + d)

-----------------------------------------------------------------------------
(* fetch.py helpers.                                                       *)

(* A gate that sleeps the jitter alone. *)
ThrottleSleepJitterOnly(e, j) ==
    LET wait_for == PFR_MIN_INTERVAL - e
    IN  IF wait_for > 0 THEN j ELSE 0

(* _sleep_min_interval, lines 33-37: the ticks slept in the gate when
   now - _last_request_ts is e and the jitter drawn is j. *)
ThrottleSleep(e, j) ==
    LET wait_for == PFR_MIN_INTERVAL - e
    IN  IF wait_for > 0 THEN wait_for + j ELSE 0

(* A header parse that does not cap the value it read. *)
_retry_after_seconds_uncapped(r) ==
    LET ra == r.retry_after
    IN  IF ra.kind = "absent"
          THEN PyMin(Fin(PFR_RETRY_AFTER_CAP), Fin(RETRY_AFTER_DEFAULT))
        ELSE IF ra.kind = "float"
          THEN PyMax(Fin(0), ra.f)
        ELSE PyMin(Fin(PFR_RETRY_AFTER_CAP), Fin(RETRY_AFTER_DEFAULT))

(* _retry_after_seconds, lines 40-48. *)
_retry_after_seconds(r) ==
    LET ra == r.retry_after
    IN  IF ra.kind = "absent"
          THEN PyMin(Fin(PFR_RETRY_AFTER_CAP), Fin(RETRY_AFTER_DEFAULT))
        ELSE IF ra.kind = "float"
          THEN PyMin(Fin(PFR_RETRY_AFTER_CAP), PyMax(Fin(0), ra.f))
        ELSE PyMin(Fin(PFR_RETRY_AFTER_CAP), Fin(RETRY_AFTER_DEFAULT))

Pow2(n) == IF n <= 0 THEN 1 ELSE 2 ^ n
IntMin(a, b) == IF b < a THEN b ELSE a

(* A backoff whose base is not capped. *)
_backoff_delay_uncapped(k, j) ==
    LET base == 160 * Pow2(k - 1)
    IN  base + j

(* _backoff_delay, lines 50-53, with the jitter drawn by the caller. *)
_backoff_delay(k, j) ==
    LET base == IntMin(160 * Pow2(k - 1), 600)
    IN  base + j

(* A loop that counts from 0: range(PFR_MAX_ATTEMPTS + 1). *)
FirstAttemptZero == 1 - 1
(* line 67: for attempt in range(1, PFR_MAX_ATTEMPTS + 1) *)
FirstAttempt == 1
LoopEnds(k)  == k > PFR_MAX_ATTEMPTS
(* lines 72, 84, 90: attempt >= PFR_MAX_ATTEMPTS *)
Exhausted(k) == k >= PFR_MAX_ATTEMPTS

(* A success test that forgets the body, and a transient test that takes
   every 4xx for a server error. *)
IsSuccessAnyBody(r) == r.status = 200
IsTransientAny4xx(r) == r.status >= 400

(* line 79: status == 200 and resp.text *)
IsSuccess(r) == r.status = 200 /\ r.text # ""
(* line 89: status >= 500 or status in (408,) *)
IsTransient(r) == r.status >= 500 \/ r.status \in {408}

(* time.sleep(x) for a float x: the ticks it sleeps. *)
SleepTicks(x) == IF x.kind = "fin" /\ x.v > 0 THEN x.v ELSE 0

-----------------------------------------------------------------------------
(* The state of the row parser and of the batch drivers outside a run.     *)
RowResult(kind, team, q1, q2, q3, q4, ot, total) ==
    [kind |-> kind, team |-> team, q1 |-> q1, q2 |-> q2, q3 |-> q3, q4 |-> q4,
     ot |-> ot, total |-> total]
NotParsed == RowResult("unparsed", "", None, None, None, None, None, None)
RowIdle   == cells = <<>> /\ rowOut = NotParsed
BatchIdle ==
    /\ driver = "none" /\ index = <<>> /\ outdir = {} /\ existing = {}
    /\ limit = 0 /\ page = <<>> /\ pos = 1 /\ bpc = "off" /\ processed = 0
    /\ skipped = <<>> /\ failures = <<>> /\ fetched = <<>> /\ saved = {}

(* The same for the attribute-keyed row parser, the aggregation and the
   two-thread gate. *)
(* A result variable holds NotRun before its operation and <<value>> after. *)
NotRun   == <<>>
Threads  == {"t1", "t2"}
DomIdle  == tr = <<>> /\ domOut = NotRun
AggIdle  ==
    /\ text = <<>> /\ parsed = NotRun /\ label = <<>> /\ stat_norm = NotRun
    /\ df = <<>> /\ df_tidy = NotRun /\ wide = NotRun
ThrIdle  ==
    /\ now = 0 /\ last_ts = 0
    /\ tpc = [t \in Threads |-> "off"] /\ wake_at = [t \in Threads |-> 0]
    /\ entries = 0 /\ lastStart = -1 /\ minGap = -1 /\ overlapped = FALSE
    /\ starters = {}
RestIdle == DomIdle /\ AggIdle /\ ThrIdle

-----------------------------------------------------------------------------
(* get, one thread.                                                        *)

(* _last_request_ts starts at 0.0 (line 25) and time.time() is the epoch
   time: the first elapsed is as large as an age gets.  The cache file may
   hold responses of earlier runs. *)
FetchInit ==
    /\ elapsed = MaxElapsed
    /\ cache \in [URLs -> {None} \cup {Some(b) : b \in {"", "A"}}]
    /\ policy \in {"backoff", "skip"}
    /\ pc = "idle"
    /\ url = "u1"
    /\ attempt = 0
    /\ resp = NoResponse
    /\ wait_s = Fin(0)
    /\ result = NoResult
    /\ calls = 0 /\ nreq = 0 /\ ngate = 0
    /\ throttled = FALSE
    /\ lastSleep = NoSleep
    /\ gateGap = -1 /\ sinceReturn = -1 /\ startGap = -1
    /\ allRetryable = TRUE

(* The fetch layer before any call, with an empty cache. *)
FetchIdle ==
    /\ elapsed = MaxElapsed
    /\ cache = [u \in URLs |-> None]
    /\ policy = "backoff"
    /\ pc = "idle"
    /\ url = "u1"
    /\ attempt = 0
    /\ resp = NoResponse
    /\ wait_s = Fin(0)
    /\ result = NoResult
    /\ calls = 0 /\ nreq = 0 /\ ngate = 0
    /\ throttled = FALSE
    /\ lastSleep = NoSleep
    /\ gateGap = -1 /\ sinceReturn = -1 /\ startGap = -1
    /\ allRetryable = TRUE

(* Time passes by d ticks outside the gate. *)
Pass(d) ==
    /\ elapsed' = Sat(elapsed + d)
    /\ sinceReturn' = Age(sinceReturn, d)

(* continue: the loop of line 67 takes its next value, or ends and line 97
   raises. *)
Continue ==
    /\ attempt' = attempt + 1
    /\ IF LoopEnds(attempt + 1)
         THEN pc' = "raised" /\ result' = Raised("FetchError")
         ELSE pc' = "gate" /\ UNCHANGED result

(* A caller calls get(u), d ticks after the previous call ended. *)
CallGet(u, d) ==
    /\ pc \in {"idle", "returned", "raised"}
    /\ calls < MaxCalls
    /\ calls' = calls + 1
    /\ Pass(d)
    /\ url' = u
    /\ attempt' = FirstAttempt
    /\ pc' = "gate"
    /\ resp' = NoResponse
    /\ wait_s' = Fin(0)
    /\ result' = NoResult
    /\ nreq' = 0 /\ ngate' = 0
    /\ throttled' = FALSE
    /\ lastSleep' = NoSleep
    /\ allRetryable' = TRUE
    /\ UNCHANGED <<cache, policy, gateGap, startGap>>
    /\ UNCHANGED <<batchVars, rowVars, restVars>>

(* line 68: _sleep_min_interval(), lines 30-38.  Line 38 makes the baseline
   the current time: elapsed is 0 on leaving. *)
SleepMinInterval(j) ==
    /\ pc = "gate"
    /\ LET slept == ThrottleSleep(elapsed, j)
       IN  /\ gateGap' = Sat(elapsed + slept)
           /\ sinceReturn' = Age(sinceReturn, slept)
           /\ throttled' = (throttled \/ slept > 0)
    /\ elapsed' = 0
    /\ ngate' = ngate + 1
    /\ pc' = "request"
    /\ UNCHANGED <<cache, policy, url, attempt, resp, wait_s, result, calls,
                   nreq, lastSleep, startGap, allRetryable>>
    /\ UNCHANGED <<batchVars, rowVars, restVars>>

(* line 70, answered by the cache installed at line 11: the stored response
   (status 200) comes back and nothing goes to the network. *)
SessionGetCached ==
    /\ pc = "request"
    /\ cache[url] # None
    /\ resp' = [status |-> 200, text |-> cache[url][1],
                retry_after |-> NoRetryAfter, from_cache |-> TRUE]
    /\ pc' = "classify"
    /\ UNCHANGED <<elapsed, cache, policy, url, attempt, wait_s, result, calls,
                   nreq, ngate, throttled, lastSleep, gateGap, sinceReturn,
                   startGap, allRetryable>>
    /\ UNCHANGED <<batchVars, rowVars, restVars>>

(* line 70 on a cache miss: the request goes out and a response comes back
   after d ticks; requests_cache stores a response of status 200. *)
SessionGetNetwork(r, d) ==
    /\ pc = "request"
    /\ cache[url] = None
    /\ startGap' = sinceReturn
    /\ elapsed' = Sat(elapsed + d)
    /\ sinceReturn' = 0
    /\ resp' = r
    /\ cache' = IF r.status = 200 THEN [cache EXCEPT ![url] = Some(r.text)] ELSE cache
    /\ nreq' = nreq + 1
    /\ pc' = "classify"
    /\ UNCHANGED <<policy, url, attempt, wait_s, result, calls, ngate,
                   throttled, lastSleep, gateGap, allRetryable>>
    /\ UNCHANGED <<batchVars, rowVars, restVars>>

(* lines 70-75 on a cache miss: the request goes out and SESSION.get raises
   requests.RequestException after d ticks. *)
SessionGetRaises(d, j) ==
    /\ pc = "request"
    /\ cache[url] = None
    /\ startGap' = sinceReturn
    /\ resp' = NoResponse
    /\ nreq' = nreq + 1
    /\ IF Exhausted(attempt)
         THEN /\ elapsed' = Sat(elapsed + d)
              /\ sinceReturn' = 0
              /\ pc' = "raised"
              /\ result' = Raised("FetchError")
              /\ UNCHANGED <<attempt, lastSleep>>
         ELSE /\ elapsed' = Sat(elapsed + d + _backoff_delay(attempt, j))
              /\ sinceReturn' = Sat(_backoff_delay(attempt, j))
              /\ lastSleep' = [kind |-> "backoff", secs |-> _backoff_delay(attempt, j)]
              /\ Continue
    /\ UNCHANGED <<cache, policy, url, wait_s, calls, ngate, throttled,
                   gateGap, allRetryable>>
    /\ UNCHANGED <<batchVars, rowVars, restVars>>

(* lines 79-80 *)
ClassifySuccess ==
    /\ pc = "classify"
    /\ IsSuccess(resp)
    /\ pc' = "returned"
    /\ result' = Returned(resp.text)
    /\ allRetryable' = FALSE
    /\ UNCHANGED <<elapsed, sinceReturn, attempt, wait_s, lastSleep>>
    /\ UNCHANGED <<cache, policy, url, resp, calls, nreq, ngate, throttled,
                   gateGap, startGap, batchVars, rowVars, restVars>>

(* lines 82-87 *)
Classify429(j) ==
    /\ pc = "classify"
    /\ ~IsSuccess(resp)
    /\ resp.status = 429
    /\ wait_s' = _retry_after_seconds(resp)
    /\ IF Exhausted(attempt)
         THEN /\ pc' = "raised"
              /\ result' = Raised("FetchError")
              /\ UNCHANGED <<elapsed, sinceReturn, attempt, lastSleep>>
         ELSE /\ Pass(SleepTicks(wait_s') + j)
              /\ lastSleep' = [kind |-> "retry_after", secs |-> SleepTicks(wait_s') + j]
              /\ Continue
    /\ UNCHANGED <<allRetryable, cache, policy, url, resp, calls, nreq, ngate,
                   throttled, gateGap, startGap, batchVars, rowVars, restVars>>

(* lines 89-93 *)
ClassifyTransient(j) ==
    /\ pc = "classify"
    /\ ~IsSuccess(resp)
    /\ resp.status # 429
    /\ IsTransient(resp)
    /\ IF Exhausted(attempt)
         THEN /\ pc' = "raised"
              /\ result' = Raised("FetchError")
              /\ UNCHANGED <<elapsed, sinceReturn, attempt, lastSleep>>
         ELSE /\ Pass(_backoff_delay(attempt, j))
              /\ lastSleep' = [kind |-> "backoff", secs |-> _backoff_delay(attempt, j)]
              /\ Continue
    /\ UNCHANGED <<wait_s, allRetryable, cache, policy, url, resp, calls, nreq,
                   ngate, throttled, gateGap, startGap, batchVars, rowVars, restVars>>

(* line 95 *)
ClassifyBadStatus ==
    /\ pc = "classify"
    /\ ~IsSuccess(resp)
    /\ resp.status # 429
    /\ ~IsTransient(resp)
    /\ pc' = "raised"
    /\ result' = Raised("FetchError")
    /\ allRetryable' = FALSE
    /\ UNCHANGED <<elapsed, sinceReturn, attempt, wait_s, lastSleep>>
    /\ UNCHANGED <<cache, policy, url, resp, calls, nreq, ngate, throttled,
                   gateGap, startGap, batchVars, rowVars, restVars>>

(* One step of the thread inside get. *)
GetStep ==
    \/ \E j \in GateJitter : SleepMinInterval(j)
    \/ SessionGetCached
    \/ \E r \in Responses, d \in Durations : SessionGetNetwork(r, d)
    \/ \E d \in Durations, j \in BackoffJitter : SessionGetRaises(d, j)
    \/ ClassifySuccess
    \/ \E j \in RetryJitter : Classify429(j)
    \/ \E j \in BackoffJitter : ClassifyTransient(j)
    \/ ClassifyBadStatus

Init == FetchInit /\ BatchIdle /\ RowIdle /\ RestIdle

Next ==
    \/ \E u \in URLs, d \in IdleTimes : CallGet(u, d)
    \/ \E j \in GateJitter : SleepMinInterval(j)
    \/ SessionGetCached
    \/ \E r \in Responses, d \in Durations : SessionGetNetwork(r, d)
    \/ \E d \in Durations, j \in BackoffJitter : SessionGetRaises(d, j)
    \/ ClassifySuccess
    \/ \E j \in RetryJitter : Classify429(j)
    \/ \E j \in BackoffJitter : ClassifyTransient(j)
    \/ ClassifyBadStatus

Spec == Init /\ [][Next]_vars

(* The thread inside get keeps running: sleeps end and SESSION.get comes
   back within its timeouts. *)
FairSpec == Spec /\ WF_vars(GetStep)

-----------------------------------------------------------------------------
(* Claims about get.                                                       *)

InCall == pc \in {"gate", "request", "classify"}
Ended  == pc \in {"returned", "raised"}

(* C1: a call of get answered from the cache does not invoke the Rate Gate
   (no write of _last_request_ts, no throttle sleep) and returns the body
   stored for its url. *)
ClaimC1 ==
    (resp.from_cache /\ pc \in {"classify", "returned", "raised"}) =>
        /\ ngate = 0
        /\ ~throttled
        /\ (pc = "returned" => result = Returned(cache[url][1]))

(* C2: under PFR_POLICY=skip a 429 ends get at once with RateLimited, a
   failure other than FetchError, after one attempt and with no Retry-After
   sleep. *)
ClaimC2 ==
    (policy = "skip" /\ resp.status = 429 /\ pc # "classify") =>
        /\ pc = "raised"
        /\ result.kind = "RateLimited"
        /\ nreq = 1
        /\ lastSleep.kind # "retry_after"

(* C3: under the backoff policy, whatever the Retry-After header of a 429,
   wait_s lies in [0, PFR_RETRY_AFTER_CAP]; an absent or unparsable header
   gives min(cap, 10 s); the sleep that follows is wait_s plus at most the
   jitter bound of 0.8 s. *)
TheoremC3 ==
    /\ (policy = "backoff" /\ resp.status = 429 /\ pc # "classify") =>
         /\ wait_s.kind = "fin"
         /\ 0 <= wait_s.v /\ wait_s.v <= PFR_RETRY_AFTER_CAP
         /\ resp.retry_after.kind \in {"absent", "text"} =>
              wait_s.v = IntMin(PFR_RETRY_AFTER_CAP, RETRY_AFTER_DEFAULT)
         /\ InCall => /\ lastSleep.kind = "retry_after"
                      /\ lastSleep.secs >= wait_s.v
                      /\ lastSleep.secs <= wait_s.v + 16
    /\ (policy = "backoff" /\ lastSleep.kind = "retry_after") =>
         lastSleep.secs <= PFR_RETRY_AFTER_CAP + 16

(* A 429 with Retry-After: 1000 was slept for the cap plus the top jitter. *)
WitnessC3 ==
    /\ policy = "backoff" /\ pc = "gate"
    /\ resp.status = 429 /\ resp.retry_after.f = Fin(20000)
    /\ wait_s = Fin(PFR_RETRY_AFTER_CAP)
    /\ lastSleep = [kind |-> "retry_after", secs |-> PFR_RETRY_AFTER_CAP + 16]

(* C4: one call of get issues at most PFR_MAX_ATTEMPTS requests and ends: it
   returns a body or raises FetchError, and when every attempt hit a
   retryable class it raises after exactly PFR_MAX_ATTEMPTS requests. *)
SafetyC4 ==
    /\ nreq <= PFR_MAX_ATTEMPTS
    /\ pc = "returned" => result.kind = "text"
    /\ pc = "raised" => result.kind = "FetchError"
    /\ (pc = "raised" /\ allRetryable) => nreq = PFR_MAX_ATTEMPTS
    /\ InCall => result.kind = "none"

(* C4: the bound and the outcomes above hold in every state, and every call
   of get that has started ends. *)
TheoremC4 == ([]SafetyC4) /\ (InCall ~> Ended)

(* Five retryable attempts of mixed classes, then FetchError. *)
WitnessC4 ==
    /\ pc = "raised" /\ allRetryable /\ nreq = PFR_MAX_ATTEMPTS
    /\ resp.status = 429 /\ lastSleep.kind = "backoff"

(* C5: a response that is neither 200 with a body, nor 429, 408 or >= 500
   makes get raise on that attempt: no sleep, no further request, whatever
   attempts remain. *)
PermanentResponse(r) ==
    /\ r.status # 0
    /\ ~(r.status = 200 /\ r.text # "")
    /\ r.status \notin {429, 408}
    /\ r.status < 500

TheoremC5 ==
    [][ /\ (pc = "classify" /\ PermanentResponse(resp)) =>
             /\ pc' = "raised"
             /\ result'.kind = "FetchError"
             /\ nreq' = nreq /\ ngate' = ngate /\ attempt' = attempt
             /\ elapsed' = elapsed /\ lastSleep' = lastSleep
        /\ (pc = "raised" /\ pc' # "raised") => calls' = calls + 1 ]_vars

(* HTTP 200 with an empty body from the network, on the first attempt. *)
WitnessC5 ==
    /\ pc = "raised" /\ resp.status = 200 /\ resp.text = "" /\ ~resp.from_cache
    /\ attempt = 1 /\ nreq = 1 /\ lastSleep = NoSleep

(* C6 as stated: every request get sends follows a Rate Gate acquire and
   starts no earlier than PFR_MIN_INTERVAL after the previous network request
   returned; the gate leaves the baseline at the current time. *)
ClaimC6 ==
    /\ pc = "request" => (ngate = attempt /\ elapsed = 0)
    /\ nreq <= ngate
    /\ startGap # -1 => startGap >= PFR_MIN_INTERVAL

(* C6 as amended: every SESSION.get call of get follows a Rate Gate acquire
   and starts no earlier than PFR_MIN_INTERVAL after the previous exit of the
   gate, that is after the previous SESSION.get call started; the gate leaves
   the baseline at the current time. *)
TheoremC6 ==
    /\ pc = "request" => (ngate = attempt /\ elapsed = 0)
    /\ nreq <= ngate
    /\ gateGap # -1 => gateGap >= PFR_MIN_INTERVAL

(* A network request that had to wait in the gate after an earlier one. *)
WitnessC6 ==
    /\ pc = "classify" /\ ~resp.from_cache /\ resp.status # 0
    /\ throttled /\ startGap # -1
    /\ gateGap > PFR_MIN_INTERVAL /\ gateGap < MaxElapsed

(* C7: get returns only for a response of status 200 with non-empty text,
   and returns that text; any other response ends in a retry or in a raised
   FetchError. *)
TheoremC7 ==
    /\ [](pc = "returned" =>
            /\ resp.status = 200 /\ resp.text # ""
            /\ result = Returned(resp.text))
    /\ [][ (pc = "classify" /\ ~(resp.status = 200 /\ resp.text # "")) =>
             \/ pc' = "raised" /\ result'.kind = "FetchError"
             \/ pc' = "gate" /\ attempt' = attempt + 1 /\ result'.kind = "none" ]_vars

(* A body returned on a retry. *)
WitnessC7 ==
    /\ pc = "returned" /\ result = Returned("B") /\ attempt > 1 /\ ~resp.from_cache

(* min(8 * 2^(k-1), 30) seconds, in ticks *)
BackoffBase(k) == CASE k = 1 -> 160 [] k = 2 -> 320 [] OTHER -> 600

(* The step handles a transport failure (SESSION.get raised: get leaves the
   request without a response to classify) or a response of status >= 500
   or 408. *)
TransientFailureStep ==
    \/ pc = "request" /\ pc' \notin {"request", "classify"}
    \/ pc = "classify" /\ (resp.status >= 500 \/ resp.status = 408)

(* What get does on such a failure, but for the comparison with the sleep
   before it. *)
BackoffTreatment ==
    IF attempt < PFR_MAX_ATTEMPTS
      THEN /\ pc' = "gate" /\ attempt' = attempt + 1 /\ result'.kind = "none"
           /\ lastSleep'.kind = "backoff"
           /\ lastSleep'.secs >= BackoffBase(attempt) + 2
           /\ lastSleep'.secs <= BackoffBase(attempt) + 12
           /\ lastSleep'.secs <= 612
      ELSE /\ pc' = "raised" /\ result'.kind = "FetchError"
           /\ lastSleep' = lastSleep /\ attempt' = attempt

(* C19 as stated: transport failures, HTTP 5xx and HTTP 408 get the same
   treatment: a failed attempt k < PFR_MAX_ATTEMPTS is followed by a sleep of
   min(8 * 2^(k-1), 30) s plus a jitter in [0.1, 0.6] s, never above 30.6 s
   and non-decreasing in k, and by attempt k+1; a failed attempt
   PFR_MAX_ATTEMPTS raises with no further sleep. *)
ClaimC19 ==
    [][ TransientFailureStep =>
          /\ BackoffTreatment
          /\ (lastSleep.kind = "backoff" /\ lastSleep'.kind = "backoff") =>
                lastSleep'.secs >= lastSleep.secs ]_vars

(* C19 as amended: the same, with the base min(8 * 2^(k-1), 30) s
   non-decreasing in k; the sleep itself, jitter included, can be shorter
   than the one before it, by less than the jitter width of 0.5 s. *)
TheoremC19 ==
    /\ [](\A k \in 1..(PFR_MAX_ATTEMPTS - 1) : BackoffBase(k) <= BackoffBase(k + 1))
    /\ [][ TransientFailureStep =>
             /\ BackoffTreatment
             /\ (lastSleep.kind = "backoff" /\ lastSleep'.kind = "backoff") =>
                   lastSleep'.secs >= lastSleep.secs - 10 ]_vars

(* The fifth attempt ended in a transport failure and get raised; the last
   sleep is the one taken after the fourth attempt, 30 s plus 0.1 s. *)
WitnessC19 ==
    /\ pc = "raised" /\ attempt = PFR_MAX_ATTEMPTS /\ nreq = PFR_MAX_ATTEMPTS
    /\ resp = NoResponse /\ lastSleep = [kind |-> "backoff", secs |-> 602]

-----------------------------------------------------------------------------
(* The batch drivers: build_totals_for_index (boxtotals.py:90-129) and      *)
(* build_linescores_for_index (linescore.py:184-219).  One action is one    *)
(* pass through the loop body.  What get and the parser do for an id is     *)
(* its page: "data" (a non-empty frame), "nodata" (None: no matching        *)
(* table), "FetchError" (get raised it) or "OtherError" (an exception that  *)
(* is not a FetchError, raised while parsing).  The sleeps of boxtotals.py  *)
(* (lines 114, 122) and the prints change nothing the drivers read.         *)
(* A file of outdir is <<stem, extension>>.  Identifiers differ in case:    *)
(* build_linescores_for_index lowers them, build_totals_for_index does not. *)

MaxIndex == 3
MaxLimit == 2
MaxFiles == 2
Ids      == {"G1", "g2"}
Stems    == {"G1", "g1", "g2"}
Exts     == {"parquet", "csv"}
Files    == Stems \X Exts
Outcomes == {"data", "nodata", "FetchError", "OtherError"}

(* str.lower on an identifier or a stem *)
LowerId(g) == IF g = "G1" THEN "g1" ELSE g
(* the games the site has a page for *)
Games == {LowerId(g) : g \in Ids}

(* boxtotals.py:97: {p.stem for p in outdir.glob("*.parquet")} *)
TotalsExisting(dir) == {f[1] : f \in {g \in dir : g[2] = "parquet"}}
(* linescore.py:191: the lowered stems of *.parquet and of *.csv *)
LinescoreExisting(dir) ==
    {LowerId(f[1]) : f \in {g \in dir : g[2] = "parquet"}}
        \cup {LowerId(f[1]) : f \in {g \in dir : g[2] = "csv"}}
(* boxtotals.py:84-87, linescore.py:180-182: gid.parquet and gid.csv *)
SavedFiles(gid) == {<<gid, "parquet">>, <<gid, "csv">>}

SeqsUpTo(S, n) == UNION {[1..k -> S] : k \in 0..n}
Range(q) == {q[i] : i \in 1..Len(q)}

(* boxtotals.py:110: except Exception *)
TotalsCatches(o) == o \in {"FetchError", "OtherError"}
(* linescore.py:207: except FetchError *)
LinescoreCatchesNothing(o) == FALSE
LinescoreCatches(o) == o = "FetchError"
(* boxtotals.py:117: df is not None and not df.empty; nothing else is done
   with a frame that is None *)
TotalsFailsOnNoDataToo(o) == o = "nodata"
TotalsRecordsNoData(o) == FALSE
(* linescore.py:202-206: a frame that is None goes to failures *)
LinescoreRecordsNoData(o) == o = "nodata"

(* limit and processed >= limit (boxtotals.py:124, linescore.py:211) *)
LimitReachedWhenExceeded(lim, n) == lim # 0 /\ n > lim
LimitReached(lim, n) == lim # 0 /\ n >= lim

BatchInit ==
    /\ driver \in {"totals", "linescore"}
    /\ index \in SeqsUpTo(Ids, MaxIndex)
    /\ outdir \in {d \in SUBSET Files : Cardinality(d) <= MaxFiles}
    /\ existing = IF driver = "totals" THEN TotalsExisting(outdir)
                                      ELSE LinescoreExisting(outdir)
    /\ limit \in 0..MaxLimit
    /\ page \in [Games -> Outcomes]
    /\ pos = 1
    /\ bpc = "loop"
    /\ processed = 0
    /\ skipped = <<>>
    /\ failures = <<>>
    /\ fetched = <<>>
    /\ saved = {}

(* boxtotals.py:101-125, one row of the index *)
TotalsIteration ==
    /\ driver = "totals" /\ bpc = "loop" /\ pos <= Len(index)
    /\ LET gid == index[pos]
           o   == page[LowerId(gid)]
       IN  IF gid \in existing
             THEN /\ skipped' = Append(skipped, gid)
                  /\ pos' = pos + 1
                  /\ UNCHANGED <<bpc, processed, failures, fetched, saved>>
           ELSE IF o \in {"FetchError", "OtherError"}
             THEN /\ fetched' = Append(fetched, gid)
                  /\ IF TotalsCatches(o)
                       THEN /\ failures' = Append(failures, gid)
                            /\ pos' = pos + 1
                            /\ UNCHANGED bpc
                       ELSE /\ bpc' = "aborted"
                            /\ UNCHANGED <<failures, pos>>
                  /\ UNCHANGED <<processed, skipped, saved>>
           ELSE /\ fetched' = Append(fetched, gid)
                /\ processed' = IF o = "data" THEN processed + 1 ELSE processed
                /\ saved' = IF o = "data" THEN saved \cup SavedFiles(gid) ELSE saved
                /\ failures' = IF TotalsRecordsNoData(o) THEN Append(failures, gid)
                                                        ELSE failures
                /\ pos' = pos + 1
                /\ bpc' = IF LimitReached(limit, processed') THEN "done" ELSE "loop"
                /\ UNCHANGED skipped
    /\ UNCHANGED <<driver, index, outdir, existing, limit, page, fetchVars,
                   rowVars, restVars>>

(* linescore.py:194-214, one row of the index *)
LinescoreIteration ==
    /\ driver = "linescore" /\ bpc = "loop" /\ pos <= Len(index)
    /\ LET gid == LowerId(index[pos])
           o   == page[gid]
       IN  IF gid \in existing
             THEN /\ skipped' = Append(skipped, gid)
                  /\ pos' = pos + 1
                  /\ UNCHANGED <<bpc, processed, failures, fetched, saved>>
           ELSE IF o \in {"FetchError", "OtherError"} /\ ~LinescoreCatches(o)
             THEN /\ fetched' = Append(fetched, gid)
                  /\ bpc' = "aborted"
                  /\ UNCHANGED <<processed, skipped, failures, pos, saved>>
           ELSE /\ fetched' = Append(fetched, gid)
                /\ processed' = IF o = "data" THEN processed + 1 ELSE processed
                /\ saved' = IF o = "data" THEN saved \cup SavedFiles(gid) ELSE saved
                /\ failures' = IF o = "FetchError" \/ LinescoreRecordsNoData(o)
                                 THEN Append(failures, gid) ELSE failures
                /\ pos' = pos + 1
                /\ bpc' = IF LimitReached(limit, processed') THEN "done" ELSE "loop"
                /\ UNCHANGED skipped
    /\ UNCHANGED <<driver, index, outdir, existing, limit, page, fetchVars,
                   rowVars, restVars>>

(* the index is exhausted: return processed, skipped *)
LoopEnd ==
    /\ bpc = "loop" /\ pos > Len(index)
    /\ bpc' = "done"
    /\ UNCHANGED <<driver, index, outdir, existing, limit, page, pos, processed,
                   skipped, failures, fetched, saved, fetchVars, rowVars,
                   restVars>>

InitBatch == BatchInit /\ FetchIdle /\ RowIdle /\ RestIdle

BatchNext == TotalsIteration \/ LinescoreIteration \/ LoopEnd

SpecBatch == InitBatch /\ [][BatchNext]_vars

-----------------------------------------------------------------------------
(* Claims about the batch drivers.                                         *)

Handled == 1..(pos - 1)
(* gid of row i, and what its page gives *)
GidAt(i) == IF driver = "linescore" THEN LowerId(index[i]) ELSE index[i]
PageAt(i) == page[LowerId(index[i])]
Fetchable(i) == GidAt(i) \notin existing

(* C8: a FetchError raised for one identifier never aborts the batch: the
   identifier is recorded in failures and the loop goes on, until the index
   ends or the limit is reached. *)
TheoremC8 ==
    /\ bpc = "aborted" => PageAt(pos) # "FetchError"
    /\ \A i \in Handled :
          (Fetchable(i) /\ PageAt(i) = "FetchError") =>
              GidAt(i) \in Range(failures)
    /\ bpc = "done" => (pos > Len(index) \/ LimitReached(limit, processed))
    /\ bpc # "aborted" => Len(skipped) + Len(fetched) = pos - 1

(* The first id failed to fetch and the two after it were still fetched. *)
WitnessC8 ==
    /\ bpc = "done" /\ Len(index) = 3 /\ pos = 4
    /\ PageAt(1) = "FetchError" /\ failures = <<GidAt(1)>>
    /\ Len(fetched) = 3 /\ processed = 2

(* C9 as stated: an id whose page has no matching table (the fetch function
   returns None) is not added to failures, and no error is raised. *)
ClaimC9 ==
    /\ bpc = "aborted" => PageAt(pos) # "nodata"
    /\ \A i \in Handled :
          (Fetchable(i) /\ PageAt(i) = "nodata") =>
              GidAt(i) \notin Range(failures)

(* C9 as amended: for such an id no error is raised, the batch goes on and
   the id does not count as processed; build_totals_for_index does not add
   it to failures, build_linescores_for_index does. *)
TheoremC9 ==
    /\ bpc = "aborted" => PageAt(pos) # "nodata"
    /\ \A i \in Handled :
          (Fetchable(i) /\ PageAt(i) = "nodata") =>
              /\ driver = "totals" => GidAt(i) \notin Range(failures)
              /\ driver = "linescore" => GidAt(i) \in Range(failures)
    /\ processed =
          Cardinality({i \in Handled : Fetchable(i) /\ PageAt(i) = "data"})
    /\ bpc = "done" => (pos > Len(index) \/ LimitReached(limit, processed))

(* build_linescores_for_index put a page without table in failures and went
   on to save the next game. *)
WitnessC9 ==
    /\ driver = "linescore" /\ bpc = "done" /\ pos = 3
    /\ PageAt(1) = "nodata" /\ failures = <<GidAt(1)>>
    /\ fetched = <<GidAt(1), GidAt(2)>> /\ processed = 1

(* Row i names an id one of whose two output files, gid.parquet or gid.csv,
   is in outdir when the batch starts. *)
HasOutput(i) == \E e \in Exts : <<GidAt(i), e>> \in outdir

(* Row i names an id the driver takes as done: build_totals_for_index looks
   for gid.parquet, build_linescores_for_index for a .parquet or .csv file
   whose lowered stem is gid. *)
TakenAsDone(i) ==
    IF driver = "totals"
      THEN <<GidAt(i), "parquet">> \in outdir
      ELSE \E f \in outdir : LowerId(f[1]) = GidAt(i)

(* A step that skips an id or records a failure leaves processed alone. *)
SkipOrFailureKeepsCount ==
    (skipped' # skipped \/ failures' # failures) => processed' = processed

(* For a limit >= 1 processed never exceeds it, the loop is over once it is
   reached, and no id is fetched by a step that starts with it reached. *)
StopsAtLimit ==
    /\ [](limit >= 1 => /\ processed <= limit
                        /\ processed = limit => bpc = "done")
    /\ [][fetched' # fetched => ~LimitReached(limit, processed)]_vars

(* C21 as stated: in both drivers an id whose output file exists in outdir
   when the batch starts is never fetched and is reported in skipped when
   the driver returns; skipped and failed ids do not count as processed;
   for a limit >= 1 the loop stops as soon as processed reaches the limit. *)
ClaimC21 ==
    /\ [](\A i \in 1..Len(index) :
            HasOutput(i) =>
                /\ GidAt(i) \notin Range(fetched)
                /\ bpc = "done" => GidAt(i) \in Range(skipped))
    /\ [][SkipOrFailureKeepsCount]_vars
    /\ StopsAtLimit

(* C21 as amended: the output file is gid.parquet for build_totals_for_index
   and a .parquet or .csv file with the lowered stem gid for
   build_linescores_for_index; such an id is never fetched, and it is in
   skipped once the loop has reached its row, which it does not when the
   loop ends before on the limit or on an error it does not catch.  Every
   other id of a row the loop has passed was fetched.  The rest as stated. *)
TheoremC21 ==
    /\ [](\A i \in 1..Len(index) :
            /\ TakenAsDone(i) =>
                  /\ GidAt(i) \notin Range(fetched)
                  /\ i \in Handled => GidAt(i) \in Range(skipped)
            /\ (~TakenAsDone(i) /\ i \in Handled) =>
                  /\ GidAt(i) \in Range(fetched)
                  /\ GidAt(i) \notin Range(skipped))
    /\ [][SkipOrFailureKeepsCount]_vars
    /\ StopsAtLimit

(* build_totals_for_index skipped the first id, whose .parquet file was
   there, saved the second and stopped on limit = 1 before the third row. *)
WitnessC21 ==
    /\ driver = "totals" /\ bpc = "done" /\ limit = 1 /\ processed = 1
    /\ Len(index) = 3 /\ pos = 3
    /\ <<index[1], "parquet">> \in outdir
    /\ skipped = <<index[1]>> /\ fetched = <<index[2]>>
    /\ saved = SavedFiles(index[2])

-----------------------------------------------------------------------------
(* The positional row parser, _parse_row_no_datastat (linescore.py:47-103). *)
(* A cell is [link, text]: whether it holds an <a> whose href contains      *)
(* "/teams/", and its stripped text.                                        *)

MaxCells == 7

TeamCell  == [link |-> TRUE,  text |-> "Jets"]
JunkCell  == [link |-> FALSE, text |-> "Jets via Sports Logos.net"]
EmptyCell == [link |-> FALSE, text |-> ""]
CellKinds == {TeamCell, JunkCell, EmptyCell,
              [link |-> FALSE, text |-> "3"], [link |-> FALSE, text |-> "7"]}

(* int(txt) on the texts of CellKinds: ValueError is None. *)
ParseInt(txt) ==
    CASE txt = "0" -> Some(0)
      [] txt = "3" -> Some(3)
      [] txt = "7" -> Some(7)
      [] OTHER     -> None

(* linescore.py:22-27 on the texts of CellKinds *)
_clean_team_name(name) ==
    IF name = "Jets via Sports Logos.net" THEN "Jets" ELSE name

(* linescore.py:29-38 *)
_get_int(cell) == IF cell.text = "" THEN None ELSE ParseInt(cell.text)

SetMin(S) == CHOOSE x \in S : \A y \in S : x <= y

(* lines 52-67: the index of the team cell, 0 for None *)
TeamIdx(cs) ==
    LET linked == {i \in 1..Len(cs) : cs[i].link}
        worded == {i \in 1..Len(cs) : cs[i].text # ""}
    IN  IF linked # {} THEN SetMin(linked)
        ELSE IF worded # {} THEN SetMin(worded)
        ELSE 0

(* lines 71-76: the integers of the cells from position i on *)
RECURSIVE NumericFrom(_, _)
NumericFrom(cs, i) ==
    IF i > Len(cs) THEN <<>>
    ELSE LET val == _get_int(cs[i])
         IN  IF val # None THEN <<val[1]>> \o NumericFrom(cs, i + 1)
             ELSE NumericFrom(cs, i + 1)

RECURSIVE SumSeq(_)
SumSeq(q) == IF q = <<>> THEN 0 ELSE q[1] + SumSeq(Tail(q))

At(q, k) == IF Len(q) >= k THEN Some(q[k]) ELSE None

(* line 88: numeric_vals[4:-1] *)
OtValsToTheEnd(q) == SubSeq(q, 5, Len(q))
OtVals(q) == SubSeq(q, 5, Len(q) - 1)

(* A total that is kept only when an overtime value is. *)
TotalValNeedsOt(q) == IF Len(q) <= 5 THEN None ELSE Some(q[Len(q)])
(* lines 85, 92-93: total is numeric_vals[-1], reset to None for 4 values *)
TotalVal(q) == IF Len(q) = 4 THEN None ELSE Some(q[Len(q)])

(* lines 47-103 *)
_parse_row_no_datastat(cs) ==
    IF cs = <<>> THEN RowResult("None", "", None, None, None, None, None, None)
    ELSE
      LET team_idx  == TeamIdx(cs)
          team_name == _clean_team_name(IF team_idx = 0 THEN "" ELSE cs[team_idx].text)
          numeric_vals == IF team_idx # 0 THEN NumericFrom(cs, team_idx + 1) ELSE <<>>
          n == Len(numeric_vals)
      IN  IF n = 0
            THEN RowResult("team_only", team_name, None, None, None, None, None, None)
            ELSE RowResult("scores", team_name,
                           At(numeric_vals, 1), At(numeric_vals, 2),
                           At(numeric_vals, 3), At(numeric_vals, 4),
                           IF n > 5 THEN Some(SumSeq(OtVals(numeric_vals))) ELSE None,
                           TotalVal(numeric_vals))

RowInit ==
    /\ cells \in SeqsUpTo(CellKinds, MaxCells)
    /\ rowOut = NotParsed

ParseRowNoDatastat ==
    /\ rowOut = NotParsed
    /\ rowOut' = _parse_row_no_datastat(cells)
    /\ UNCHANGED <<cells, fetchVars, batchVars, restVars>>

InitRow == RowInit /\ FetchIdle /\ BatchIdle /\ RestIdle

RowNext == ParseRowNoDatastat

SpecRow == InitRow /\ [][RowNext]_vars

-----------------------------------------------------------------------------
(* Claims about the row parser.                                            *)

(* The numeric cells after the entity column, by position. *)
NumericPositions ==
    {i \in (TeamIdx(cells) + 1)..Len(cells) : cells[i].text \in {"3", "7"}}
NumericCount == IF TeamIdx(cells) = 0 THEN 0 ELSE Cardinality(NumericPositions)
(* the value of the k-th numeric cell *)
NthNumeric(k) ==
    LET i == CHOOSE p \in NumericPositions :
                 Cardinality({r \in NumericPositions : r < p}) = k - 1
    IN  IF cells[i].text = "3" THEN 3 ELSE 7
RECURSIVE SumNumeric(_, _)
SumNumeric(a, b) == IF a > b THEN 0 ELSE NthNumeric(a) + SumNumeric(a + 1, b)

(* C10: in positional fallback, 4 numeric cells after the entity column give
   q1..q4 in order, ot = None and total = None; n >= 6 numeric cells give
   q1..q4 = the first four, total = the last and ot = the sum of the values
   strictly between the fourth and the last. *)
TheoremC10 ==
    (rowOut # NotParsed /\ (NumericCount = 4 \/ NumericCount >= 6)) =>
        /\ rowOut.kind = "scores"
        /\ rowOut.q1 = Some(NthNumeric(1)) /\ rowOut.q2 = Some(NthNumeric(2))
        /\ rowOut.q3 = Some(NthNumeric(3)) /\ rowOut.q4 = Some(NthNumeric(4))
        /\ NumericCount = 4 => (rowOut.ot = None /\ rowOut.total = None)
        /\ NumericCount >= 6 =>
             /\ rowOut.total = Some(NthNumeric(NumericCount))
             /\ rowOut.ot = Some(SumNumeric(5, NumericCount - 1))

(* Six scores after the team link: one overtime period between Q4 and the
   total. *)
WitnessC10 ==
    /\ rowOut.kind = "scores" /\ NumericCount = 6
    /\ cells[1] = TeamCell
    /\ rowOut.ot = Some(3) /\ rowOut.total = Some(7) /\ rowOut.q4 = Some(7)

(* C11 as stated: in positional fallback, exactly 5 numeric cells after the
   entity column give q1..q4 = the first four values and leave every field
   beyond q4 unassigned: ot is None and total is None. *)
ClaimC11 ==
    (rowOut # NotParsed /\ NumericCount = 5) =>
        /\ rowOut.kind = "scores"
        /\ rowOut.q1 = Some(NthNumeric(1)) /\ rowOut.q2 = Some(NthNumeric(2))
        /\ rowOut.q3 = Some(NthNumeric(3)) /\ rowOut.q4 = Some(NthNumeric(4))
        /\ rowOut.ot = None /\ rowOut.total = None

(* C11 as amended: exactly 5 numeric cells after the entity column give
   q1..q4 = the first four values and ot = None, and total is the fifth
   value. *)
TheoremC11 ==
    (rowOut # NotParsed /\ NumericCount = 5) =>
        /\ rowOut.kind = "scores"
        /\ rowOut.q1 = Some(NthNumeric(1)) /\ rowOut.q2 = Some(NthNumeric(2))
        /\ rowOut.q3 = Some(NthNumeric(3)) /\ rowOut.q4 = Some(NthNumeric(4))
        /\ rowOut.ot = None
        /\ rowOut.total = Some(NthNumeric(5))

(* A regulation game: the team link, four quarters and the final score. *)
WitnessC11 ==
    /\ rowOut.kind = "scores" /\ NumericCount = 5 /\ Len(cells) = 6
    /\ cells[1] = TeamCell
    /\ rowOut.q4 = Some(3) /\ rowOut.ot = None /\ rowOut.total = Some(7)

-----------------------------------------------------------------------------
(* The attribute-keyed row parser: the loop body of                        *)
(* _parse_linescore_from_dom (linescore.py:125-163) for one <tr>.  rows[0]  *)
(* and rows[1] go through the same body and share nothing.  A cell is       *)
(* [link, text, stat]: stat is its data-stat attribute, "" when it has      *)
(* none.                                                                    *)

MaxDomCells == 5

FieldNames == {"q1", "q2", "q3", "q4", "ot", "total"}

(* linescore.py:11-18 *)
Q_KEYS ==
    [k \in FieldNames |->
        CASE k = "q1"    -> <<"q1", "1", "pts_q1", "pts1">>
          [] k = "q2"    -> <<"q2", "2", "pts_q2", "pts2">>
          [] k = "q3"    -> <<"q3", "3", "pts_q3", "pts3">>
          [] k = "q4"    -> <<"q4", "4", "pts_q4", "pts4">>
          [] k = "ot"    -> <<"ot", "pts_ot">>
          [] k = "total" -> <<"total", "t", "pts", "pts_total">>]

DomCell(link, txt, stat) == [link |-> link, text |-> txt, stat |-> stat]
DomCellKinds ==
    {DomCell(TRUE, "Jets", ""),
     DomCell(FALSE, "Jets via Sports Logos.net", "team"),
     DomCell(FALSE, "3", ""), DomCell(FALSE, "7", ""),
     DomCell(FALSE, "0", "q1"), DomCell(FALSE, "", "q1"),
     DomCell(FALSE, "7", "1"),
     DomCell(FALSE, "3", "total"), DomCell(FALSE, "7", "pts")}

(* linescore.py:40-45: the first cell carrying the first alias of keys that
   any cell carries; a bs4 Tag is always truthy *)
RECURSIVE _select_first(_, _)
_select_first(row, keys) ==
    IF keys = <<>> THEN None
    ELSE LET hits == {i \in 1..Len(row) : row[i].stat = Head(keys)}
         IN  IF hits # {} THEN Some(row[SetMin(hits)])
             ELSE _select_first(row, Tail(keys))

(* linescore.py:29-31, 145: _get_int of what _select_first gave *)
GetIntOf(el) == IF el = None THEN None ELSE _get_int(el[1])

(* A merge that lets the positional value win. *)
FallbackFirst(v, f) == IF f # None THEN f ELSE v
(* linescore.py:149-150: if vals.get(key) is None: vals[key] = fallback.get(key) *)
FillFromFallback(v, f) == IF v = None THEN f ELSE v

(* linescore.py:125-163 *)
ParseLinescoreRow(row) ==
    LET fallback  == _parse_row_no_datastat(row)
        hasFb     == fallback.kind # "None"
        team_cell == _select_first(row, <<"team", "tm">>)
        team0     == IF team_cell # None THEN team_cell[1].text
                     ELSE IF hasFb THEN fallback.team ELSE ""
        team1     == _clean_team_name(team0)
        vals      == [k \in FieldNames |-> GetIntOf(_select_first(row, Q_KEYS[k]))]
        out       == [k \in FieldNames |->
                        IF hasFb THEN FillFromFallback(vals[k], fallback[k])
                                 ELSE vals[k]]
        team2     == IF hasFb /\ team1 = "" THEN fallback.team ELSE team1
    IN  [team |-> team2, q1 |-> out["q1"], q2 |-> out["q2"], q3 |-> out["q3"],
         q4 |-> out["q4"], ot |-> out["ot"], total |-> out["total"]]

DomInit ==
    /\ tr \in SeqsUpTo(DomCellKinds, MaxDomCells)
    /\ domOut = NotRun

ParseLinescoreFromDom ==
    /\ domOut = NotRun
    /\ domOut' = Some(ParseLinescoreRow(tr))
    /\ UNCHANGED <<tr, aggVars, thrVars, fetchVars, batchVars, rowVars>>

InitDom == DomInit /\ FetchIdle /\ BatchIdle /\ RowIdle /\ AggIdle /\ ThrIdle

DomNext == ParseLinescoreFromDom

SpecDom == InitDom /\ [][DomNext]_vars

-----------------------------------------------------------------------------
(* Claims about the attribute-keyed row parser.                            *)

(* The aliases of field k that some cell of tr carries, by their rank in
   Q_KEYS[k], and the integer of the first cell carrying the best of them. *)
PresentRanks(k) ==
    {r \in 1..Len(Q_KEYS[k]) : \E i \in 1..Len(tr) : tr[i].stat = Q_KEYS[k][r]}
AttrValue(k) ==
    IF PresentRanks(k) = {} THEN None
    ELSE LET a == Q_KEYS[k][SetMin(PresentRanks(k))]
             i == SetMin({p \in 1..Len(tr) : tr[p].stat = a})
         IN  IF tr[i].text \in {"0", "3", "7"} THEN ParseInt(tr[i].text) ELSE None
PositionalValue(k) ==
    IF tr = <<>> THEN None ELSE _parse_row_no_datastat(tr)[k]

(* C12: for each of q1, q2, q3, q4, ot, total, when the attribute-keyed
   lookup (first present data-stat alias in Q_KEYS order) gives a non-null
   integer the output field equals it, whatever the positional fallback
   computed; the positional value is used only for fields the attribute-keyed
   pass left null. *)
TheoremC12 ==
    domOut # NotRun =>
        \A k \in FieldNames :
            /\ AttrValue(k) # None => domOut[1][k] = AttrValue(k)
            /\ AttrValue(k) = None => domOut[1][k] = PositionalValue(k)

(* q1 carries data-stat "q1" with 0 while the first number after the team
   link is another one: the output keeps the 0; total has no attribute and
   comes from the position. *)
WitnessC12 ==
    /\ domOut # NotRun
    /\ AttrValue("q1") = Some(0) /\ PositionalValue("q1") = Some(7)
    /\ domOut[1].q1 = Some(0)
    /\ AttrValue("total") = None /\ domOut[1].total = Some(3)

-----------------------------------------------------------------------------
(* Two threads of one process calling get: the Rate Gate of fetch.py:30-38   *)
(* and the request of line 70, with no lock around them (fetch.py has none). *)
(* A thread reads the clock and _last_request_ts (lines 33-34), sleeps if    *)
(* it has to (lines 35-37), then writes _last_request_ts (line 38) and       *)
(* sends its request (line 70).  What follows the request in get does not    *)
(* touch the gate: the thread is "idle" until it enters the gate again, for  *)
(* a retry or for a new call.  The clock is absolute here.                   *)

MaxNow     == 170
MaxEntries == 3
ClockSteps == {15, 40}

IntMax(a, b) == IF a < b THEN b ELSE a

(* A gate that leaves the baseline as it found it. *)
BaselineKept(clock, ts) == ts
(* line 38: _last_request_ts = time.time() *)
BaselineAfter(clock, ts) == clock

(* _last_request_ts = 0.0 and time.time() far from it: the first caller does
   not wait. *)
ThrInit ==
    /\ now = PFR_MIN_INTERVAL /\ last_ts = 0
    /\ tpc = [t \in Threads |-> "idle"]
    /\ wake_at = [t \in Threads |-> 0]
    /\ entries = 0 /\ lastStart = -1 /\ minGap = -1
    /\ overlapped = FALSE /\ starters = {}

(* line 68: the thread calls _sleep_min_interval *)
EnterGate(t) ==
    /\ tpc[t] = "idle" /\ entries < MaxEntries
    /\ entries' = entries + 1
    /\ tpc' = [tpc EXCEPT ![t] = "read"]
    /\ overlapped' = (overlapped \/ \E o \in Threads \ {t} : tpc[o] # "idle")
    /\ UNCHANGED <<now, last_ts, wake_at, lastStart, minGap, starters>>
    /\ UNCHANGED <<fetchVars, batchVars, rowVars, domVars, aggVars>>

(* lines 33-37: read the clock and the baseline, start to sleep if
   wait_for > 0 *)
ReadBaseline(t, j) ==
    /\ tpc[t] = "read"
    /\ LET slept == ThrottleSleep(now - last_ts, j)
       IN  IF slept > 0
             THEN /\ tpc' = [tpc EXCEPT ![t] = "sleep"]
                  /\ wake_at' = [wake_at EXCEPT ![t] = now + slept]
             ELSE /\ tpc' = [tpc EXCEPT ![t] = "write"]
                  /\ UNCHANGED wake_at
    /\ UNCHANGED <<now, last_ts, entries, lastStart, minGap, overlapped, starters>>
    /\ UNCHANGED <<fetchVars, batchVars, rowVars, domVars, aggVars>>

(* line 37: time.sleep returns, no earlier than asked *)
EndSleep(t) ==
    /\ tpc[t] = "sleep"
    /\ IntMax(now, wake_at[t]) <= MaxNow
    /\ now' = IntMax(now, wake_at[t])
    /\ tpc' = [tpc EXCEPT ![t] = "write"]
    /\ UNCHANGED <<last_ts, wake_at, entries, lastStart, minGap, overlapped, starters>>
    /\ UNCHANGED <<fetchVars, batchVars, rowVars, domVars, aggVars>>

(* lines 38 and 70: _last_request_ts = time.time(), then SESSION.get *)
WriteBaselineAndRequest(t) ==
    /\ tpc[t] = "write"
    /\ last_ts' = BaselineAfter(now, last_ts)
    /\ lastStart' = now
    /\ minGap' = IF lastStart = -1 THEN minGap
                 ELSE IF minGap = -1 THEN now - lastStart
                 ELSE IntMin(minGap, now - lastStart)
    /\ starters' = starters \cup {t}
    /\ tpc' = [tpc EXCEPT ![t] = "idle"]
    /\ UNCHANGED <<now, wake_at, entries, overlapped>>
    /\ UNCHANGED <<fetchVars, batchVars, rowVars, domVars, aggVars>>

(* the clock goes on *)
Advance(d) ==
    /\ now + d <= MaxNow
    /\ now' = now + d
    /\ UNCHANGED <<last_ts, tpc, wake_at, entries, lastStart, minGap, overlapped,
                   starters>>
    /\ UNCHANGED <<fetchVars, batchVars, rowVars, domVars, aggVars>>

InitThreads == ThrInit /\ FetchIdle /\ BatchIdle /\ RowIdle /\ DomIdle /\ AggIdle

ThreadsNext ==
    \/ \E t \in Threads : EnterGate(t)
    \/ \E t \in Threads, j \in GateJitter : ReadBaseline(t, j)
    \/ \E t \in Threads : EndSleep(t)
    \/ \E t \in Threads : WriteBaselineAndRequest(t)
    \/ \E d \in ClockSteps : Advance(d)

SpecThreads == InitThreads /\ [][ThreadsNext]_vars

-----------------------------------------------------------------------------
(* Claims about the gate under two threads.                                *)

(* C20 as stated: for every interleaving of two threads that call get
   concurrently, any two outbound requests start at least PFR_MIN_INTERVAL
   apart. *)
ClaimC20 == minGap # -1 => minGap >= PFR_MIN_INTERVAL

(* C20 as amended: any two outbound requests start at least PFR_MIN_INTERVAL
   apart as long as no thread enters the gate while another is between its
   entry and its request; the gate itself has no lock that keeps threads
   from doing so. *)
TheoremC20 == ~overlapped => (minGap # -1 => minGap >= PFR_MIN_INTERVAL)

(* Both threads have sent a request, one after the other, and the later one
   slept in the gate to the interval plus the least jitter. *)
WitnessC20 ==
    /\ ~overlapped /\ starters = Threads
    /\ minGap = PFR_MIN_INTERVAL + 1
    /\ \A t \in Threads : tpc[t] = "idle"

-----------------------------------------------------------------------------
(* aggregate_totals.py.  A text (a Python str) is a sequence of             *)
(* one-character strings; "u2013" and "u2014" stand for the en dash and the *)
(* em dash.  The texts of the model hold no whitespace but " ", no "_"      *)
(* inside numbers and only ASCII digits.                                    *)

DigitChars == <<"0", "1", "2", "3", "4", "5", "6", "7", "8", "9">>
Digits     == Range(DigitChars)
DigitVal(c) == (CHOOSE i \in 1..10 : DigitChars[i] = c) - 1
IsSpace(c)  == c = " "

SetMax(S) == CHOOSE x \in S : \A y \in S : y <= x
Drop(s, n) == SubSeq(s, n + 1, Len(s))

(* str.strip() and the \s* of the patterns *)
RECURSIVE lstrip(_)
lstrip(s) == IF s # <<>> /\ IsSpace(Head(s)) THEN lstrip(Tail(s)) ELSE s
RECURSIVE rstrip(_)
rstrip(s) ==
    IF s # <<>> /\ IsSpace(s[Len(s)]) THEN rstrip(SubSeq(s, 1, Len(s) - 1)) ELSE s
strip(s) == rstrip(lstrip(s))

(* \d+ at the start of s: the digits s starts with (greedy; what may follow
   a run of digits in the patterns is never a digit) *)
RECURSIVE DigitRun(_)
DigitRun(s) ==
    IF s # <<>> /\ Head(s) \in Digits THEN <<Head(s)>> \o DigitRun(Tail(s)) ELSE <<>>

(* int() of a run of digits *)
RECURSIVE IntAcc(_, _)
IntAcc(s, acc) ==
    IF s = <<>> THEN acc ELSE IntAcc(Tail(s), 10 * acc + DigitVal(Head(s)))
IntOfDigits(s) == IntAcc(s, 0)

(* lines 85-89: int(str(val).strip()), None on any exception *)
_to_int_safe(val) ==
    LET s      == strip(val)
        signed == s # <<>> /\ Head(s) \in {"+", "-"}
        body   == IF signed THEN Tail(s) ELSE s
    IN  IF body # <<>> /\ DigitRun(body) = body
          THEN Some(IF signed /\ Head(s) = "-" THEN 0 - IntOfDigits(body)
                                               ELSE IntOfDigits(body))
          ELSE None

(* lines 91-98: re.match(r"^\s*(\d+)\s*[-/]\s*(\d+)\s*$", text) *)
_to_pct_tuple(txt) ==
    LET s1 == lstrip(txt)
        d1 == DigitRun(s1)
        s2 == lstrip(Drop(s1, Len(d1)))
        s3 == IF s2 = <<>> THEN <<>> ELSE lstrip(Tail(s2))
        d2 == DigitRun(s3)
        s4 == lstrip(Drop(s3, Len(d2)))
    IN  IF /\ d1 # <<>>
           /\ s2 # <<>> /\ Head(s2) \in {"-", "/"}
           /\ d2 # <<>>
           /\ s4 = <<>>
          THEN <<Some(IntOfDigits(d1)), Some(IntOfDigits(d2))>>
          ELSE <<None, None>>

(* A seconds field of any width. *)
AnyDigits(d) == Len(d) >= 1
(* \d{2} followed by \s*$ *)
TwoDigits(d) == Len(d) = 2

(* lines 100-104: re.match(r"^\s*(\d+):(\d{2})\s*$", text) *)
_to_seconds_mmss(txt) ==
    LET s1 == lstrip(txt)
        d1 == DigitRun(s1)
        s2 == Drop(s1, Len(d1))
        s3 == IF s2 = <<>> THEN <<>> ELSE Tail(s2)
        d2 == DigitRun(s3)
        s4 == lstrip(Drop(s3, Len(d2)))
    IN  IF /\ d1 # <<>>
           /\ s2 # <<>> /\ Head(s2) = ":"
           /\ TwoDigits(d2)
           /\ s4 = <<>>
          THEN Some(IntOfDigits(d1) * 60 + IntOfDigits(d2))
          ELSE None

(* the texts the claims name *)
T5_12 == <<"5", "-", "1", "2">>
T5s12 == <<"5", "/", "1", "2">>
Tabc  == <<"a", "b", "c">>
T7c03 == <<"7", ":", "0", "3">>
T703  == <<"7", "0", "3">>
T350  == <<"3", "5", "0">>
T410  == <<"4", "1", "0">>

-----------------------------------------------------------------------------
(* The value parsers on their own.                                         *)

MaxText    == 4
ValueChars == {"0", "1", "2", "3", "5", "7", "-", "/", ":", " ", "a", "b", "c"}

ParseInit ==
    /\ text \in SeqsUpTo(ValueChars, MaxText)
    /\ parsed = NotRun
    /\ label = <<>> /\ stat_norm = NotRun
    /\ df = <<>> /\ df_tidy = NotRun /\ wide = NotRun

ParseValue ==
    /\ parsed = NotRun
    /\ parsed' = Some([int     |-> _to_int_safe(text),
                       pct     |-> _to_pct_tuple(text),
                       seconds |-> _to_seconds_mmss(text)])
    /\ UNCHANGED <<text, label, stat_norm, df, df_tidy, wide>>
    /\ UNCHANGED <<fetchVars, batchVars, rowVars, domVars, thrVars>>

InitParse == ParseInit /\ FetchIdle /\ BatchIdle /\ RowIdle /\ DomIdle /\ ThrIdle

ParseNext == ParseValue

SpecParse == InitParse /\ [][ParseNext]_vars

-----------------------------------------------------------------------------
(* Claims about the value parsers.                                         *)

NonSpace(s) == {i \in 1..Len(s) : s[i] # " "}
(* s without the blanks around it *)
Trimmed(s) ==
    IF NonSpace(s) = {} THEN <<>>
    ELSE SubSeq(s, SetMin(NonSpace(s)), SetMax(NonSpace(s)))
AllDigits(s) == s # <<>> /\ \A i \in 1..Len(s) : s[i] \in Digits
RECURSIVE Decimal(_)
Decimal(s) ==
    IF s = <<>> THEN 0
    ELSE 10 * Decimal(SubSeq(s, 1, Len(s) - 1)) + DigitVal(s[Len(s)])

(* where s splits into digits, '-' or '/', digits: with no blank anywhere,
   and with blanks allowed around each run of digits *)
StrictRatioSplits(s) ==
    {i \in 1..Len(s) : /\ s[i] \in {"-", "/"}
                       /\ AllDigits(SubSeq(s, 1, i - 1))
                       /\ AllDigits(SubSeq(s, i + 1, Len(s)))}
RatioSplits(s) ==
    {i \in 1..Len(s) : /\ s[i] \in {"-", "/"}
                       /\ AllDigits(Trimmed(SubSeq(s, 1, i - 1)))
                       /\ AllDigits(Trimmed(SubSeq(s, i + 1, Len(s))))}
(* s is digits, ':', exactly two digits *)
IsClock(s) ==
    /\ Len(s) >= 4 /\ s[Len(s) - 2] = ":"
    /\ AllDigits(SubSeq(s, 1, Len(s) - 3))
    /\ AllDigits(SubSeq(s, Len(s) - 1, Len(s)))
ClockValue(s) ==
    Decimal(SubSeq(s, 1, Len(s) - 3)) * 60 + Decimal(SubSeq(s, Len(s) - 1, Len(s)))
(* int() of the trimmed text, None when it is no integer literal *)
IntegerValue(s) ==
    IF AllDigits(s) THEN Some(Decimal(s))
    ELSE IF s # <<>> /\ s[1] \in {"+", "-"} /\ AllDigits(Tail(s))
      THEN Some(IF s[1] = "-" THEN 0 - Decimal(Tail(s)) ELSE Decimal(Tail(s)))
    ELSE None

(* what the claim says of its five texts *)
ExamplesC14 ==
    /\ text = T5_12 => parsed[1].pct = <<Some(5), Some(12)>>
    /\ text = T5s12 => parsed[1].pct = <<Some(5), Some(12)>>
    /\ text = Tabc  => parsed[1].pct = <<None, None>>
    /\ text = T7c03 => parsed[1].seconds = Some(423)
    /\ text = T703  => parsed[1].seconds = None

(* C14 as stated: the value parsers are total and never raise:
   _to_pct_tuple returns (made, att) when the text is digits, '-' or '/',
   digits and (None, None) otherwise; _to_seconds_mmss returns
   minutes*60+seconds when the text is digits, ':', exactly two digits and
   None otherwise; _to_int_safe returns the integer or None; '5-12' and
   '5/12' give (5, 12), 'abc' gives (None, None), '7:03' gives 423 and '703'
   gives None. *)
ClaimC14 ==
    parsed # NotRun =>
        /\ parsed[1].pct =
             IF StrictRatioSplits(text) # {}
               THEN LET i == CHOOSE i \in StrictRatioSplits(text) : TRUE
                    IN  <<Some(Decimal(SubSeq(text, 1, i - 1))),
                          Some(Decimal(SubSeq(text, i + 1, Len(text))))>>
               ELSE <<None, None>>
        /\ parsed[1].seconds = IF IsClock(text) THEN Some(ClockValue(text)) ELSE None
        /\ parsed[1].int = IntegerValue(Trimmed(text))
        /\ ExamplesC14

(* C14 as amended: the same, with blanks allowed around the text of all
   three parsers and around the '-' or '/' of a ratio (not around the ':'
   of a duration). *)
TheoremC14 ==
    parsed # NotRun =>
        /\ parsed[1].pct =
             IF RatioSplits(text) # {}
               THEN LET i == CHOOSE i \in RatioSplits(text) : TRUE
                    IN  <<Some(Decimal(Trimmed(SubSeq(text, 1, i - 1)))),
                          Some(Decimal(Trimmed(SubSeq(text, i + 1, Len(text)))))>>
               ELSE <<None, None>>
        /\ parsed[1].seconds =
             IF IsClock(Trimmed(text)) THEN Some(ClockValue(Trimmed(text))) ELSE None
        /\ parsed[1].int = IntegerValue(Trimmed(text))
        /\ ExamplesC14

(* '7:03' parsed: 423 seconds, no ratio, no integer. *)
WitnessC14 ==
    /\ text = T7c03 /\ parsed # NotRun
    /\ parsed[1].seconds = Some(423)
    /\ parsed[1].pct = <<None, None>> /\ parsed[1].int = None

-----------------------------------------------------------------------------
(* _normalize_stat_name and its tables (aggregate_totals.py:10-83).        *)

LowerChars == <<"a", "b", "c", "d", "e", "f", "g", "h", "i", "j", "k", "l", "m",
                "n", "o", "p", "q", "r", "s", "t", "u", "v", "w", "x", "y", "z">>
UpperChars == <<"A", "B", "C", "D", "E", "F", "G", "H", "I", "J", "K", "L", "M",
                "N", "O", "P", "Q", "R", "S", "T", "U", "V", "W", "X", "Y", "Z">>
Letters    == Range(LowerChars)
Capitals   == Range(UpperChars)

(* The canonical keys, as texts. *)
K_first_downs == <<"f", "i", "r", "s", "t", "_", "d", "o", "w", "n", "s">>
K_total_yards == <<"t", "o", "t", "a", "l", "_", "y", "a", "r", "d", "s">>
K_rush_yards == <<"r", "u", "s", "h", "_", "y", "a", "r", "d", "s">>
K_pass_yards == <<"p", "a", "s", "s", "_", "y", "a", "r", "d", "s">>
K_turnovers == <<"t", "u", "r", "n", "o", "v", "e", "r", "s">>
K_fumbles_lost == <<"f", "u", "m", "b", "l", "e", "s", "_", "l", "o", "s", "t">>
K_ints_thrown == <<"i", "n", "t", "s", "_", "t", "h", "r", "o", "w", "n">>
K_penalties == <<"p", "e", "n", "a", "l", "t", "i", "e", "s">>
K_penalties_yards == <<"p", "e", "n", "a", "l", "t", "i", "e", "s", "_", "y", "a", "r", "d", "s">>
K_third_down_conv == <<"t", "h", "i", "r", "d", "_", "d", "o", "w", "n", "_", "c", "o", "n", "v">>
K_fourth_down_conv == <<"f", "o", "u", "r", "t", "h", "_", "d", "o", "w", "n", "_", "c", "o",
        "n", "v">>
K_time_of_possession == <<"t", "i", "m", "e", "_", "o", "f", "_", "p", "o", "s", "s", "e", "s",
        "s", "i", "o", "n">>

(* lines 10-54: STAT_ALIASES, as pairs <<label, canonical key>> *)
STAT_ALIASES ==
    {<<<<"f", "i", "r", "s", "t", " ", "d", "o", "w", "n", "s">>, K_first_downs>>,
     <<<<"f", "i", "r", "s", "t", "d", "o", "w", "n", "s">>, K_first_downs>>,
     <<<<"t", "o", "t", "a", "l", " ", "y", "a", "r", "d", "s">>, K_total_yards>>,
     <<<<"t", "o", "t", "a", "l", " ", "y", "d", "s">>, K_total_yards>>,
     <<<<"t", "o", "t", " ", "y", "a", "r", "d", "s">>, K_total_yards>>,
     <<<<"t", "o", "t", " ", "y", "d", "s">>, K_total_yards>>,
     <<<<"r", "u", "s", "h", "i", "n", "g", " ", "y", "a", "r", "d", "s">>, K_rush_yards>>,
     <<<<"r", "u", "s", "h", " ", "y", "a", "r", "d", "s">>, K_rush_yards>>,
     <<<<"r", "u", "s", "h", "-", "y", "d", "s">>, K_rush_yards>>,
     <<<<"p", "a", "s", "s", "i", "n", "g", " ", "y", "a", "r", "d", "s">>, K_pass_yards>>,
     <<<<"p", "a", "s", "s", " ", "y", "a", "r", "d", "s">>, K_pass_yards>>,
     <<<<"p", "a", "s", "s", "-", "y", "d", "s">>, K_pass_yards>>,
     <<<<"t", "u", "r", "n", "o", "v", "e", "r", "s">>, K_turnovers>>,
     <<<<"t", "o">>, K_turnovers>>,
     <<<<"f", "u", "m", "b", "l", "e", "s", " ", "l", "o", "s", "t">>, K_fumbles_lost>>,
     <<<<"f", "u", "m", " ", "l", "o", "s", "t">>, K_fumbles_lost>>,
     <<<<"i", "n", "t", "e", "r", "c", "e", "p", "t", "i", "o", "n", "s", " ", "t", "h", "r",
             "o", "w", "n">>, K_ints_thrown>>,
     <<<<"i", "n", "t", " ", "t", "h", "r", "o", "w", "n">>, K_ints_thrown>>,
     <<<<"i", "n", "t", "e", "r", "c", "e", "p", "t", "i", "o", "n", "s">>, K_ints_thrown>>,
     <<<<"p", "e", "n", "a", "l", "t", "i", "e", "s">>, K_penalties>>,
     <<<<"p", "e", "n", "a", "l", "t", "i", "e", "s", "-", "y", "a", "r", "d", "s">>,
             K_penalties_yards>>,
     <<<<"p", "e", "n", "-", "y", "d", "s">>, K_penalties_yards>>,
     <<<<"p", "e", "n", "a", "l", "t", "i", "e", "s", "/", "y", "d", "s">>, K_penalties_yards>>,
     <<<<"t", "h", "i", "r", "d", " ", "d", "o", "w", "n", " ", "c", "o", "n", "v", ".">>,
             K_third_down_conv>>,
     <<<<"t", "h", "i", "r", "d", "-", "d", "o", "w", "n", " ", "c", "o", "n", "v", ".">>,
             K_third_down_conv>>,
     <<<<"3", "r", "d", " ", "d", "o", "w", "n", " ", "c", "o", "n", "v", ".">>,
             K_third_down_conv>>,
     <<<<"t", "h", "i", "r", "d", " ", "d", "o", "w", "n", " ", "c", "o", "n", "v">>,
             K_third_down_conv>>,
     <<<<"f", "o", "u", "r", "t", "h", " ", "d", "o", "w", "n", " ", "c", "o", "n", "v", ".">>,
             K_fourth_down_conv>>,
     <<<<"4", "t", "h", " ", "d", "o", "w", "n", " ", "c", "o", "n", "v", ".">>,
             K_fourth_down_conv>>,
     <<<<"f", "o", "u", "r", "t", "h", " ", "d", "o", "w", "n", " ", "c", "o", "n", "v">>,
             K_fourth_down_conv>>,
     <<<<"t", "i", "m", "e", " ", "o", "f", " ", "p", "o", "s", "s", "e", "s", "s", "i", "o",
             "n">>, K_time_of_possession>>,
     <<<<"p", "o", "s", "s", "e", "s", "s", "i", "o", "n", " ", "t", "i", "m", "e">>,
             K_time_of_possession>>,
     <<<<"t", "i", "m", "e", " ", "o", "f", " ", "p", "o", "s", "s">>, K_time_of_possession>>}

(* lines 56-73 *)
INT_LIKE  == {K_first_downs, K_total_yards, K_rush_yards, K_pass_yards, K_turnovers,
        K_fumbles_lost, K_ints_thrown, K_penalties, K_penalties_yards}
PCT_LIKE  == {K_third_down_conv, K_fourth_down_conv}
TIME_LIKE == {K_time_of_possession}

AliasKeys == {a[1] : a \in STAT_ALIASES}
(* STAT_ALIASES.get(key, default) *)
AliasGet(key, default) ==
    IF key \in AliasKeys THEN (CHOOSE a \in STAT_ALIASES : a[1] = key)[2] ELSE default

(* str.lower() *)
LowerChar(c) ==
    IF c \in Capitals THEN LowerChars[CHOOSE i \in 1..26 : UpperChars[i] = c] ELSE c
lower(s) == [i \in 1..Len(s) |-> LowerChar(s[i])]

(* A normaliser that leaves the dashes as they are. *)
KeepDash(c) == c
(* line 81: replace the en dash and the em dash by "-" *)
DashToHyphen(c) == IF c \in {"u2013", "u2014"} THEN "-" ELSE c

(* line 82: re.sub(r"\s+", " ", key) *)
RECURSIVE CollapseSpaces(_)
CollapseSpaces(s) ==
    IF s = <<>> THEN <<>>
    ELSE IF IsSpace(Head(s)) THEN <<" ">> \o CollapseSpaces(lstrip(s))
    ELSE <<Head(s)>> \o CollapseSpaces(Tail(s))

(* [a-z0-9_] *)
SlugChar(c) == c \in Letters \cup Digits \cup {"_"}
RECURSIVE DropNonSlug(_)
DropNonSlug(s) ==
    IF s # <<>> /\ ~SlugChar(Head(s)) THEN DropNonSlug(Tail(s)) ELSE s
(* line 83: re.sub(r"[^a-z0-9_]+", "_", key) *)
RECURSIVE SlugRuns(_)
SlugRuns(s) ==
    IF s = <<>> THEN <<>>
    ELSE IF SlugChar(Head(s)) THEN <<Head(s)>> \o SlugRuns(Tail(s))
    ELSE <<"_">> \o SlugRuns(DropNonSlug(s))
(* line 83: .strip("_") *)
RECURSIVE StripUnderscores(_)
StripUnderscores(s) ==
    IF s # <<>> /\ Head(s) = "_" THEN StripUnderscores(Tail(s))
    ELSE IF s # <<>> /\ s[Len(s)] = "_"
      THEN StripUnderscores(SubSeq(s, 1, Len(s) - 1))
    ELSE s

(* lines 80-82: the key looked up in STAT_ALIASES *)
LabelKey(s) ==
    LET k1 == lower(strip(s))
        k2 == [i \in 1..Len(k1) |-> DashToHyphen(k1[i])]
    IN  CollapseSpaces(k2)

(* lines 79-83 *)
_normalize_stat_name(s) ==
    LET key == LabelKey(s)
    IN  AliasGet(key, StripUnderscores(SlugRuns(key)))

-----------------------------------------------------------------------------
(* _normalize_stat_name on its own.                                        *)

MaxLabel   == 3
LabelChars == {"t", "T", "o", " ", "-", "u2013", "_", "%"}

L_Third_Down_Conv == <<"T", "h", "i", "r", "d", " ", "D", "o", "w", "n", " ", "C", "o", "n",
        "v", ".">>
L_3rd_down_conv   == <<"3", "r", "d", " ", "d", "o", "w", "n", " ", "c", "o", "n", "v", ".">>
L_third_down_conv == <<"t", "h", "i", "r", "d", "-", "d", "o", "w", "n", " ", "c", "o", "n",
        "v", ".">>
(* an em dash, two blanks and a blank at the end *)
L_Third_Down_Conv_wide == <<"T", "h", "i", "r", "d", "u2014", "D", "o", "w", "n", " ", " ",
        "C", "o", "n", "v", ".", " ">>
L_Sacked_Yards    == <<"S", "a", "c", "k", "e", "d", "-", "Y", "a", "r", "d", "s">>

NamedLabels ==
    AliasKeys \cup {L_Third_Down_Conv, L_3rd_down_conv, L_third_down_conv,
                    L_Third_Down_Conv_wide, L_Sacked_Yards}

NormInit ==
    /\ label \in SeqsUpTo(LabelChars, MaxLabel) \cup NamedLabels
    /\ stat_norm = NotRun
    /\ text = <<>> /\ parsed = NotRun
    /\ df = <<>> /\ df_tidy = NotRun /\ wide = NotRun

NormalizeStatName ==
    /\ stat_norm = NotRun
    /\ stat_norm' = Some(_normalize_stat_name(label))
    /\ UNCHANGED <<label, text, parsed, df, df_tidy, wide>>
    /\ UNCHANGED <<fetchVars, batchVars, rowVars, domVars, thrVars>>

InitNorm == NormInit /\ FetchIdle /\ BatchIdle /\ RowIdle /\ DomIdle /\ ThrIdle

NormNext == NormalizeStatName

SpecNorm == InitNorm /\ [][NormNext]_vars

-----------------------------------------------------------------------------
(* Claims about _normalize_stat_name.                                      *)

Dashes == {"-", "u2013", "u2014"}
FlipCase(c) ==
    IF c \in Capitals THEN LowerChars[CHOOSE i \in 1..26 : UpperChars[i] = c]
    ELSE IF c \in Letters THEN UpperChars[CHOOSE i \in 1..26 : LowerChars[i] = c]
    ELSE c
(* The labels one step away from s: one letter in the other case, one more
   blank in front, at the end or next to a blank, one dash replaced by
   another kind of dash. *)
Variants(s) ==
    {[s EXCEPT ![i] = FlipCase(s[i])] : i \in 1..Len(s)}
    \cup {<<" ">> \o s, s \o <<" ">>}
    \cup {SubSeq(s, 1, i) \o <<" ">> \o SubSeq(s, i + 1, Len(s)) :
             i \in {p \in 1..Len(s) : s[p] = " "}}
    \cup {[s EXCEPT ![i] = d] : i \in {p \in 1..Len(s) : s[p] \in Dashes}, d \in Dashes}

RECURSIVE Keep(_, _)
Keep(s, S) ==
    IF s = <<>> THEN <<>>
    ELSE IF Head(s) \in S THEN <<Head(s)>> \o Keep(Tail(s), S) ELSE Keep(Tail(s), S)
Alnum == Letters \cup Digits
HasAlnum(s) == \E i \in 1..Len(s) : s[i] \in Alnum \cup Capitals

(* What C15 says but for the emptiness of the key: variants of a label get
   the key of the label; a label of the alias table gets its target, and so
   do the three spellings of the third-down label; any other label gets a
   slug of its own text: its letters and digits in lower case, in order,
   with "_" between them and none at either end. *)
NormalizesC15 ==
    /\ \A v \in Variants(label) : _normalize_stat_name(v) = stat_norm[1]
    /\ label \in AliasKeys => stat_norm[1] = AliasGet(label, <<>>)
    /\ label \in {L_Third_Down_Conv, L_3rd_down_conv, L_third_down_conv} =>
          stat_norm[1] = K_third_down_conv
    /\ LabelKey(label) \notin AliasKeys =>
          /\ \A i \in 1..Len(stat_norm[1]) : SlugChar(stat_norm[1][i])
          /\ stat_norm[1] # <<>> =>
                (stat_norm[1][1] # "_" /\ stat_norm[1][Len(stat_norm[1])] # "_")
          /\ Keep(stat_norm[1], Alnum) = Keep(lower(label), Alnum)

(* C15 as stated: _normalize_stat_name maps every label to some non-empty
   canonical key; labels that differ only in letter case, in surrounding or
   repeated whitespace, or in en/em dash versus hyphen map to the same key;
   a label in the alias table maps to its alias target; any other label maps
   to the slug of its own text. *)
ClaimC15 ==
    stat_norm # NotRun => (stat_norm[1] # <<>> /\ NormalizesC15)

(* C15 as amended: the same, but the key is non-empty only for a label that
   holds a letter or a digit; a label without any maps to the empty key. *)
TheoremC15 ==
    stat_norm # NotRun =>
        /\ stat_norm[1] # <<>> <=> HasAlnum(label)
        /\ NormalizesC15

(* 'Third Down Conv.' written with an em dash, two blanks and a blank at the
   end still gets third_down_conv. *)
WitnessC15 ==
    /\ label = L_Third_Down_Conv_wide
    /\ stat_norm = Some(K_third_down_conv)

-----------------------------------------------------------------------------
(* tidy_totals and pivot_totals_wide (aggregate_totals.py:127-249).  A      *)
(* DataFrame is the sequence of its rows, a row a record of its columns;    *)
(* None is a null cell (None or NaN).  A column of the wide frame is named  *)
(* <<side, stat, part>>: <<"away", total_yards, "">> is away_total_yards,   *)
(* <<"home", third_down_conv, "att">> is home_third_down_conv_att.  A wide  *)
(* row gives a cell for every column of the frame; pandas leaves out a      *)
(* column whose cells are all null, which reads as null here.               *)

RawRow(g, a, h, stat, av, hv) ==
    [game_id |-> g, away_team |-> a, home_team |-> h, stat |-> stat,
     away_value |-> av, home_value |-> hv]

(* A shape test that fails for every key. *)
InNoShape(s, S) == FALSE
(* lines 147, 151, 157: s in INT_LIKE, s in PCT_LIKE, s in TIME_LIKE *)
InShape(s, S) == s \in S

(* lines 130-159 for one row *)
TidyRow(r) ==
    LET s == _normalize_stat_name(r.stat)
    IN  [game_id |-> r.game_id, away_team |-> r.away_team, home_team |-> r.home_team,
         stat |-> r.stat, away_value |-> r.away_value, home_value |-> r.home_value,
         stat_norm |-> s,
         away_val_raw |-> r.away_value, home_val_raw |-> r.home_value,
         away_val_int |-> IF InShape(s, INT_LIKE) THEN _to_int_safe(r.away_value) ELSE None,
         home_val_int |-> IF InShape(s, INT_LIKE) THEN _to_int_safe(r.home_value) ELSE None,
         away_made    |-> IF InShape(s, PCT_LIKE) THEN _to_pct_tuple(r.away_value)[1] ELSE None,
         away_att     |-> IF InShape(s, PCT_LIKE) THEN _to_pct_tuple(r.away_value)[2] ELSE None,
         home_made    |-> IF InShape(s, PCT_LIKE) THEN _to_pct_tuple(r.home_value)[1] ELSE None,
         home_att     |-> IF InShape(s, PCT_LIKE) THEN _to_pct_tuple(r.home_value)[2] ELSE None,
         away_seconds |-> IF InShape(s, TIME_LIKE) THEN _to_seconds_mmss(r.away_value) ELSE None,
         home_seconds |-> IF InShape(s, TIME_LIKE) THEN _to_seconds_mmss(r.home_value) ELSE None]

(* lines 127-161 *)
tidy_totals(d) == [i \in 1..Len(d) |-> TidyRow(d[i])]

RECURSIVE Sorted(_)
Sorted(S) == IF S = {} THEN <<>> ELSE <<SetMin(S)>> \o Sorted(S \ {SetMin(S)})

(* line 174: key_cols *)
KeyOf(r) == <<r.game_id, r.away_team, r.home_team>>

(* The keys of the rows that lie in a shape group only. *)
KeysInPieces(t) ==
    LET firsts == {i \in 1..Len(t) :
                      /\ t[i].stat_norm \in INT_LIKE \cup PCT_LIKE \cup TIME_LIKE
                      /\ \A j \in 1..(i - 1) :
                            t[j].stat_norm \in INT_LIKE \cup PCT_LIKE \cup TIME_LIKE
                               => KeyOf(t[j]) # KeyOf(t[i])}
        order  == Sorted(firsts)
    IN  [n \in 1..Len(order) |-> KeyOf(t[order[n]])]
(* line 176: df_tidy[key_cols].drop_duplicates(): the distinct keys, in the
   order of their first rows *)
BaseKeys(t) ==
    LET firsts == {i \in 1..Len(t) : \A j \in 1..(i - 1) : KeyOf(t[j]) # KeyOf(t[i])}
        order  == Sorted(firsts)
    IN  [n \in 1..Len(order) |-> KeyOf(t[order[n]])]

(* lines 181-183, 197-199, 223-225: the rows of one shape group *)
GroupRows(t, S) == {i \in 1..Len(t) : t[i].stat_norm \in S}
GroupStats(t, S) == {t[i].stat_norm : i \in GroupRows(t, S)}

(* the columns each piece brings: lines 192, 208, 216, 233 *)
WideColumns(t) ==
    {<<side, s, "">> : side \in {"away", "home"}, s \in GroupStats(t, INT_LIKE)}
    \cup {<<side, s, part>> : side \in {"away", "home"}, s \in GroupStats(t, PCT_LIKE),
                              part \in {"made", "att"}}
    \cup {<<side, s, "seconds">> : side \in {"away", "home"}, s \in GroupStats(t, TIME_LIKE)}
(* the shape group and the tidy column a wide column is made from *)
GroupOf(c) ==
    CASE c[3] = ""                -> INT_LIKE
      [] c[3] \in {"made", "att"} -> PCT_LIKE
      [] OTHER                    -> TIME_LIKE
FieldOf(c) ==
    CASE c[1] = "away" /\ c[3] = ""        -> "away_val_int"
      [] c[1] = "home" /\ c[3] = ""        -> "home_val_int"
      [] c[1] = "away" /\ c[3] = "made"    -> "away_made"
      [] c[1] = "away" /\ c[3] = "att"     -> "away_att"
      [] c[1] = "home" /\ c[3] = "made"    -> "home_made"
      [] c[1] = "home" /\ c[3] = "att"     -> "home_att"
      [] c[1] = "away" /\ c[3] = "seconds" -> "away_seconds"
      [] OTHER                             -> "home_seconds"

(* An aggregate that takes the last value that is not null. *)
LastValid(t, I, f) ==
    LET J == {i \in I : t[i][f] # None}
    IN  IF J = {} THEN None ELSE t[SetMax(J)][f]
(* aggfunc="first" (lines 189, 207, 215, 231): GroupBy.first, the first
   value of the group that is not null, null when there is none *)
FirstValid(t, I, f) ==
    LET J == {i \in I : t[i][f] # None}
    IN  IF J = {} THEN None ELSE t[SetMin(J)][f]

(* the cell of column c for key k: the pivot of the group of c (the rows of
   the group with key k and the stat of c, full duplicates dropped), joined
   to the base on the key (line 247) *)
WideCell(t, k, c) ==
    LET I == {i \in GroupRows(t, GroupOf(c)) : KeyOf(t[i]) = k /\ t[i].stat_norm = c[2]}
    IN  FirstValid(t, I, FieldOf(c))

(* pd.DataFrame(): no row, no column *)
EmptyFrame == <<>>

(* lines 171-249 *)
pivot_totals_wide(t) ==
    IF t = <<>> THEN EmptyFrame
    ELSE IF /\ GroupRows(t, INT_LIKE) = {}
            /\ GroupRows(t, PCT_LIKE) = {}
            /\ GroupRows(t, TIME_LIKE) = {}
      THEN EmptyFrame
    ELSE LET base == BaseKeys(t)
         IN  [n \in 1..Len(base) |->
                [game_id |-> base[n][1], away_team |-> base[n][2],
                 home_team |-> base[n][3],
                 cols |-> [c \in WideColumns(t) |-> WideCell(t, base[n], c)]]]

-----------------------------------------------------------------------------
(* aggregate_totals (lines 254-274): tidy_totals, then pivot_totals_wide.  *)

MaxRows == 3

L_Total_Yards == <<"T", "o", "t", "a", "l", " ", "Y", "a", "r", "d", "s">>
L_total_yds   == <<"t", "o", "t", "a", "l", " ", "y", "d", "s">>
L_Time_of_Possession == <<"T", "i", "m", "e", " ", "o", "f", " ", "P", "o", "s", "s", "e", "s", "s", "i", "o", "n">>
T41   == <<"4", "1">>
T3_20 == <<"3", "-", "2", "0">>
T1_7  == <<"1", "-", "7">>

(* the game_id, away_team and home_team of a row: game g1 comes with two
   spellings of its home team *)
RawKeys == {<<"g1", "NYJ", "BUF">>, <<"g1", "NYJ", "Bills">>, <<"g2", "NYJ", "BUF">>}
(* the stat, away_value and home_value of a row *)
RawStats ==
    {<<L_Total_Yards, T350, T410>>,
     <<L_Total_Yards, T41, T350>>,
     <<L_total_yds, Tabc, T41>>,
     <<L_Third_Down_Conv, T5_12, T5s12>>,
     <<L_Time_of_Possession, T7c03, T703>>,
     <<L_Sacked_Yards, T3_20, T1_7>>}
RawRows ==
    {RawRow(k[1], k[2], k[3], s[1], s[2], s[3]) : k \in RawKeys, s \in RawStats}

AggInit ==
    /\ df \in SeqsUpTo(RawRows, MaxRows)
    /\ df_tidy = NotRun /\ wide = NotRun
    /\ text = <<>> /\ parsed = NotRun /\ label = <<>> /\ stat_norm = NotRun

TidyTotals ==
    /\ df_tidy = NotRun
    /\ df_tidy' = Some(tidy_totals(df))
    /\ UNCHANGED <<df, wide, text, parsed, label, stat_norm>>
    /\ UNCHANGED <<fetchVars, batchVars, rowVars, domVars, thrVars>>

PivotTotalsWide ==
    /\ df_tidy # NotRun /\ wide = NotRun
    /\ wide' = Some(pivot_totals_wide(df_tidy[1]))
    /\ UNCHANGED <<df, df_tidy, text, parsed, label, stat_norm>>
    /\ UNCHANGED <<fetchVars, batchVars, rowVars, domVars, thrVars>>

InitAgg == AggInit /\ FetchIdle /\ BatchIdle /\ RowIdle /\ DomIdle /\ ThrIdle

AggNext == TidyTotals \/ PivotTotalsWide

SpecAgg == InitAgg /\ [][AggNext]_vars

-----------------------------------------------------------------------------
(* Claims about tidy_totals and pivot_totals_wide.                         *)

IntFields  == {"away_val_int", "home_val_int"}
PctFields  == {"away_made", "away_att", "home_made", "home_att"}
TimeFields == {"away_seconds", "home_seconds"}
(* the value shapes declared for a key *)
ShapesOf(s) ==
    {g \in {"integer", "ratio", "duration"} :
        \/ g = "integer"  /\ s \in INT_LIKE
        \/ g = "ratio"    /\ s \in PCT_LIKE
        \/ g = "duration" /\ s \in TIME_LIKE}

(* What C13 says of the typed fields of a tidy row: the fields of a shape
   that is not the one of its stat_norm are null, the fields of the shape of
   its stat_norm hold the parsed values, null where parsing failed. *)
TypedFieldsC13(r) ==
    /\ r.stat_norm = _normalize_stat_name(r.stat)
    /\ "integer" \notin ShapesOf(r.stat_norm) => \A f \in IntFields : r[f] = None
    /\ "ratio" \notin ShapesOf(r.stat_norm) => \A f \in PctFields : r[f] = None
    /\ "duration" \notin ShapesOf(r.stat_norm) => \A f \in TimeFields : r[f] = None
    /\ "integer" \in ShapesOf(r.stat_norm) =>
          /\ r.away_val_int = _to_int_safe(r.away_val_raw)
          /\ r.home_val_int = _to_int_safe(r.home_val_raw)
    /\ "ratio" \in ShapesOf(r.stat_norm) =>
          /\ <<r.away_made, r.away_att>> = _to_pct_tuple(r.away_val_raw)
          /\ <<r.home_made, r.home_att>> = _to_pct_tuple(r.home_val_raw)
    /\ "duration" \in ShapesOf(r.stat_norm) =>
          /\ r.away_seconds = _to_seconds_mmss(r.away_val_raw)
          /\ r.home_seconds = _to_seconds_mmss(r.home_val_raw)

(* C13 as stated: every row produced by tidy_totals has a stat_norm with
   exactly one declared value shape; the typed fields of the two other shape
   groups are null for both sides, and the fields of the declared group hold
   the parsed values, or null where parsing failed. *)
ClaimC13 ==
    df_tidy # NotRun =>
        /\ Len(df_tidy[1]) = Len(df)
        /\ \A i \in 1..Len(df_tidy[1]) :
              /\ Cardinality(ShapesOf(df_tidy[1][i].stat_norm)) = 1
              /\ TypedFieldsC13(df_tidy[1][i])

(* C13 as amended: every row produced by tidy_totals has a stat_norm with at
   most one declared value shape, and none when its label is not in the
   alias table; the typed fields of the other shape groups (all three when
   there is none) are null, and the fields of the declared group hold the
   parsed values, or null where parsing failed. *)
TheoremC13 ==
    df_tidy # NotRun =>
        /\ Len(df_tidy[1]) = Len(df)
        /\ \A i \in 1..Len(df_tidy[1]) :
              /\ Cardinality(ShapesOf(df_tidy[1][i].stat_norm)) <= 1
              /\ TypedFieldsC13(df_tidy[1][i])

(* A ratio row parsed on both sides, then a duration row whose home value
   ('703') did not parse. *)
WitnessC13 ==
    /\ df_tidy # NotRun /\ Len(df) = 2
    /\ df_tidy[1][1].stat_norm = K_third_down_conv
    /\ df_tidy[1][1].away_made = Some(5) /\ df_tidy[1][1].home_att = Some(12)
    /\ df_tidy[1][1].away_val_int = None /\ df_tidy[1][1].away_seconds = None
    /\ df_tidy[1][2].stat_norm = K_time_of_possession
    /\ df_tidy[1][2].away_seconds = Some(423) /\ df_tidy[1][2].home_seconds = None

(* the rows of the tidy input in some shape group *)
ShapedRows ==
    {i \in 1..Len(df_tidy[1]) : ShapesOf(df_tidy[1][i].stat_norm) # {}}
(* the cells of a wide row for the shape groups its entity has no row in *)
LackingCellsNull(w) ==
    \A c \in DOMAIN w.cols :
        (\A i \in ShapedRows :
            ~(/\ KeyOf(df_tidy[1][i]) = KeyOf(w)
              /\ df_tidy[1][i].stat_norm \in GroupOf(c)))
        => w.cols[c] = None

(* C16 as stated: for every non-empty tidy input, every distinct entity
   (game) of the input appears in the output of pivot_totals_wide, also when
   an entity has rows in only some shape groups and when no shape group
   contains it at all; the columns of the groups it lacks are null. *)
ClaimC16 ==
    wide # NotRun =>
        /\ \A i \in 1..Len(df_tidy[1]) :
              \E n \in 1..Len(wide[1]) : KeyOf(wide[1][n]) = KeyOf(df_tidy[1][i])
        /\ \A n \in 1..Len(wide[1]) : LackingCellsNull(wide[1][n])

(* C16 as amended: when at least one row of the tidy input lies in a shape
   group, every distinct entity of the input appears in the output, also an
   entity with rows in only some shape groups or in none, and the columns of
   the groups it lacks are null; when no row of the input lies in any shape
   group, the output is the empty frame. *)
TheoremC16 ==
    wide # NotRun =>
        IF ShapedRows # {}
          THEN /\ \A i \in 1..Len(df_tidy[1]) :
                     \E n \in 1..Len(wide[1]) : KeyOf(wide[1][n]) = KeyOf(df_tidy[1][i])
               /\ \A n \in 1..Len(wide[1]) : LackingCellsNull(wide[1][n])
          ELSE wide[1] = <<>>

(* Game g1 has only a total-yards row and game g2 only a row of a label
   outside the alias table: both are in the output, g2 with null cells. *)
WitnessC16 ==
    /\ wide # NotRun /\ Len(df) = 2 /\ Len(wide[1]) = 2
    /\ df[1].game_id = "g1" /\ df_tidy[1][1].stat_norm = K_total_yards
    /\ df[2].game_id = "g2" /\ df_tidy[1][2].stat_norm \notin AliasKeys
    /\ ShapesOf(df_tidy[1][2].stat_norm) = {}
    /\ wide[1][2].game_id = "g2"
    /\ \A c \in DOMAIN wide[1][2].cols : wide[1][2].cols[c] = None
    /\ wide[1][1].cols[<<"away", K_total_yards, "">>] = Some(350)

(* C17, for inputs that have a row in a shape group: the wide output has
   exactly one row per distinct game_id of its input, also when the same
   game_id occurs with differing away_team/home_team values; two rows for
   game g1 with total_yards away 350 and home 410 give the single record
   {g1, away_total_yards: 350, home_total_yards: 410}. *)
ClaimC17 ==
    (wide # NotRun /\ ShapedRows # {}) =>
        /\ \A i \in 1..Len(df_tidy[1]) :
              Cardinality({n \in 1..Len(wide[1]) :
                              wide[1][n].game_id = df_tidy[1][i].game_id}) = 1
        /\ \A n \in 1..Len(wide[1]) :
              \E i \in 1..Len(df_tidy[1]) : df_tidy[1][i].game_id = wide[1][n].game_id
        /\ (/\ Len(df) = 2 /\ df[1] = df[2]
            /\ df[1] = RawRow("g1", "NYJ", "BUF", L_Total_Yards, T350, T410)) =>
              /\ Len(wide[1]) = 1
              /\ wide[1][1].game_id = "g1"
              /\ wide[1][1].cols = [c \in {<<"away", K_total_yards, "">>,
                                           <<"home", K_total_yards, "">>} |->
                                       IF c[1] = "away" THEN Some(350) ELSE Some(410)]

(* the rows of the tidy input that feed column c of wide row w, in input
   order *)
FeedRows(w, c) ==
    {i \in 1..Len(df_tidy[1]) :
        /\ KeyOf(df_tidy[1][i]) = KeyOf(w)
        /\ df_tidy[1][i].stat_norm = c[2]
        /\ df_tidy[1][i].stat_norm \in GroupOf(c)}

(* C18 as stated: when the tidy input has several rows for the same
   (entity, canonical stat key), every wide column of that pair is filled
   from the first such row in input order; values of later duplicate rows
   never reach the output, also when the first row's value is null. *)
ClaimC18 ==
    wide # NotRun =>
        \A n \in 1..Len(wide[1]) : \A c \in DOMAIN wide[1][n].cols :
            FeedRows(wide[1][n], c) # {} =>
                wide[1][n].cols[c] =
                    df_tidy[1][SetMin(FeedRows(wide[1][n], c))][FieldOf(c)]

(* C18 as amended: each wide column of the pair is filled, on its own, from
   the first row of the pair in input order whose value for that column is
   not null, so a later duplicate row fills the columns the rows before it
   left null; values after the first non-null one never reach the output; the
   column is null when every row of the pair has it null. *)
TheoremC18 ==
    wide # NotRun =>
        \A n \in 1..Len(wide[1]) : \A c \in DOMAIN wide[1][n].cols :
            LET v == wide[1][n].cols[c]
                F == FeedRows(wide[1][n], c)
            IN  IF v = None
                  THEN \A i \in F : df_tidy[1][i][FieldOf(c)] = None
                  ELSE \E i \in F :
                          /\ df_tidy[1][i][FieldOf(c)] = v
                          /\ \A j \in F : j < i => df_tidy[1][j][FieldOf(c)] = None

(* Two rows of one game for total_yards: 'abc' and '41', then '350' and
   '410'.  The away column takes 350 from the second row, the home column 41
   from the first. *)
WitnessC18 ==
    /\ wide # NotRun /\ Len(df) = 2 /\ Len(wide[1]) = 1
    /\ KeyOf(df[1]) = KeyOf(df[2])
    /\ df[1].stat = L_total_yds /\ df[2].stat = L_Total_Yards
    /\ df_tidy[1][1].away_val_int = None /\ df_tidy[1][2].away_val_int = Some(350)
    /\ wide[1][1].cols[<<"away", K_total_yards, "">>] = Some(350)
    /\ wide[1][1].cols[<<"home", K_total_yards, "">>] = Some(41)

=============================================================================
